---- MODULE Spec2Model ----
(***************************************************************************)
(* Model of the Fusion RPC add-in's command core:                          *)
(*   - the selector resolvers of commands/_selection_helpers.py            *)
(*     (specification SpecSel),                                            *)
(*   - the mutating command handlers of commands/*_feature.py and          *)
(*     commands/extrude_profile.py (specification Spec), and               *)
(*   - the request dispatcher _handle_request of FusionRPCAddIn.py         *)
(*     (specification SpecRpc),                                            *)
(*   - the socket server thread, the request queue and the custom-event    *)
(*     handler of FusionRPCAddIn.py (specification SpecSrv).               *)
(* Lengths are integers; the host's internal unit is the centimetre, so    *)
(* one internal unit is 10 mm.                                             *)
(***************************************************************************)
EXTENDS Integers, Sequences, FiniteSets, TLC

VARIABLES pool, selector, enumOk, result,
          doc, doc0, req, pc, frame, trace, resp, prev, applies,
          rpcRequest, rpcPc, rpcResponse, commandsLoaded,
          srv, queue, conn, mainThread, handled,
          conv, vision, agent

\* the state of a selector resolution
selVars == <<pool, selector, enumOk, result>>

\* the state of the command handlers and of the host document
cmdVars == <<doc, doc0, req, pc, frame, trace, resp, prev, applies>>

\* the state of the request dispatcher of FusionRPCAddIn.py
rpcVars == <<rpcRequest, rpcPc, rpcResponse, commandsLoaded>>

\* the state of the socket server thread, of the request queue and of the
\* host's custom-event handler
srvVars == <<srv, queue, conn, mainThread, handled>>

\* the state of the helpers that run beside the document: a length on its
\* way through the unit conversions, a call of the vision client, and a run
\* of the agent runner's planner loop
toolVars == <<conv, vision, agent>>

vars == <<pool, selector, enumOk, result, doc, doc0, req, pc, frame, trace, resp, prev, applies,
          rpcRequest, rpcPc, rpcResponse, commandsLoaded, srv, queue, conn, mainThread, handled,
          conv, vision, agent>>

(***************************************************************************)
(* Bounds of the model.                                                    *)
(***************************************************************************)
\* Largest number of entities the host enumerates for one resolution.
MaxPool == 2

\* Largest number of preview=false requests in one session.
MaxApplies == 1

\* Largest number of construction axes in the document.
MaxAxes == 2

(***************************************************************************)
(* Optional values: None is Python's None (or a raised exception that the  *)
(* code turns into None); a present scalar v is <<v>>; a present point or  *)
(* vector is its coordinate triple.                                        *)
(***************************************************************************)
None == <<>>

Some(v) == <<v>>

IsNone(o) == o = <<>>

(***************************************************************************)
(* Unit conversion.                                                        *)
(***************************************************************************)
\* _convert_mm: internal units (cm) to mm, by the unit manager or by the
\* fallback "value * 10.0"; both multiply by ten.
ConvertMm(value) == value * 10

\* _length_factor_mm: convert_mm(units_mgr, 1.0).
LengthFactorMm == ConvertMm(1)

\* _point_tuple_mm: each coordinate converted.
PointTupleMm(point) == <<ConvertMm(point[1]), ConvertMm(point[2]), ConvertMm(point[3])>>

(***************************************************************************)
(* Entities as the host presents them.  h is the object (its handle),      *)
(* token what _entity_id can read of it, geom the face's geometry          *)
(* ("plane", "curved", or "raises" when reading it raises), pos the        *)
(* centroid / midpoint / vertex point, mag the area / length, vec the      *)
(* face normal / edge direction, bbox the bounding box <<min, max>>.       *)
(* pos, vec and bbox are in internal units.                                *)
(***************************************************************************)
\* _entity_id followed by the callers' `or ""`: the empty string sorts
\* before every token; tokens are ordered as the positive integers.
EntityIdStr(e) == IF IsNone(e.token) THEN 0 ELSE e.token[1]

\* a planarity test that takes a geometry it cannot read for a plane
IsPlanarUnlessCurved(e) == e.geom # "curved"

\* _is_planar: False when the geometry cannot be read, True for a plane.
IsPlanar(e) == e.geom = "plane"

\* _axis_vector
AxisVector(axis) ==
    CASE axis = "+X" -> <<1, 0, 0>>
      [] axis = "-X" -> <<-1, 0, 0>>
      [] axis = "+Y" -> <<0, 1, 0>>
      [] axis = "-Y" -> <<0, -1, 0>>
      [] axis = "+Z" -> <<0, 0, 1>>
      [] axis = "-Z" -> <<0, 0, -1>>
      [] OTHER -> <<0, 0, 0>>

\* _vector_dot
VectorDot(vector, axis) == vector[1] * axis[1] + vector[2] * axis[2] + vector[3] * axis[3]

\* _face_area_mm2: area * length_factor ** 2, None when the area raises.
FaceAreaMm2(e) == IF IsNone(e.mag) THEN None ELSE Some(e.mag[1] * LengthFactorMm * LengthFactorMm)

\* _edge_length_mm: length * length_factor, None when the length raises.
EdgeLengthMm(e) == IF IsNone(e.mag) THEN None ELSE Some(e.mag[1] * LengthFactorMm)

\* index of a lower-case axis name in a point
AxisIndex(axis) == CASE axis = "x" -> 1 [] axis = "y" -> 2 [] OTHER -> 3

\* _bbox_mm: min and max converted to mm, None when there is no box.
BBoxMm(e) == IF IsNone(e.bbox) THEN None ELSE <<PointTupleMm(e.bbox[1]), PointTupleMm(e.bbox[2])>>

\* a squared distance that is not negated
SquaredDistance(tuple, point) ==
    LET dx == tuple[1] - point[1]
        dy == tuple[2] - point[2]
        dz == tuple[3] - point[3]
    IN  dx * dx + dy * dy + dz * dz

\* squared distance in mm between a converted point and the request's point_mm
NegSquaredDistance(tuple, point) ==
    LET dx == tuple[1] - point[1]
        dy == tuple[2] - point[2]
        dz == tuple[3] - point[3]
    IN  -(dx * dx + dy * dy + dz * dz)

(***************************************************************************)
(* Candidates.  Each resolver walks the enumeration in order and appends a *)
(* candidate for every entity that survives its filters.  FaceScore,       *)
(* EdgeScore and VertexScore return None for an entity that is skipped.    *)
(***************************************************************************)
FaceScore(e, sel) ==
    IF sel.type \in {"largest_planar", "normal_closest"} /\ ~IsPlanar(e) THEN None
    ELSE IF IsNone(e.pos) THEN None
    ELSE IF sel.type \in {"largest_planar", "largest_area"}
         THEN FaceAreaMm2(e)
    ELSE IF sel.type = "normal_closest"
         THEN IF IsNone(e.vec) THEN None
              ELSE Some(VectorDot(e.vec, AxisVector(sel.axis)))
    ELSE IF sel.type \in {"max_bbox", "min_bbox"}
         THEN IF IsNone(BBoxMm(e)) THEN None
              ELSE IF sel.type = "max_bbox"
                   THEN Some(BBoxMm(e)[2][AxisIndex(sel.axis)])
                   ELSE Some(-(BBoxMm(e)[1][AxisIndex(sel.axis)]))
    ELSE None

EdgeScore(e, sel) ==
    IF IsNone(e.pos) THEN None
    ELSE IF sel.type = "longest_edge" THEN EdgeLengthMm(e)
    ELSE IF sel.type = "normal_closest"
         THEN IF IsNone(e.vec) THEN None
              ELSE Some(VectorDot(e.vec, AxisVector(sel.axis)))
    ELSE IF sel.type = "closest_to_point"
         THEN IF IsNone(sel.point) THEN None
              ELSE Some(NegSquaredDistance(PointTupleMm(e.pos), sel.point))
    ELSE None

VertexScore(e, sel) ==
    IF IsNone(e.pos) THEN None
    ELSE IF sel.type = "closest_to_point"
         THEN IF IsNone(sel.point) THEN None
              ELSE Some(NegSquaredDistance(PointTupleMm(e.pos), sel.point))
    ELSE None

\* a face key that compares the identity token before the centroid
FaceTieKeyTokenFirst(item) ==
    <<-item.score, -(IF IsNone(item.mag) THEN -1 ELSE item.mag[1]), item.id>> \o item.tuple

\* the secondary magnitude of the tie-break key: -1.0 for an absent one
MagnitudeOrMinusOne(m) == IF IsNone(m) THEN -1 ELSE m[1]

\* _tie_key of _select_face: (-score, -area, centroid_tuple, face_id)
FaceTieKey(item) ==
    <<-item.score, -MagnitudeOrMinusOne(item.mag)>> \o item.tuple \o <<item.id>>

\* _tie_key of _select_edge: (-score, -length, midpoint_tuple, edge_id)
EdgeTieKey(item) ==
    <<-item.score, -MagnitudeOrMinusOne(item.mag)>> \o item.tuple \o <<item.id>>

\* _tie_key of _select_vertex: (-score, point_tuple, vertex_id)
VertexTieKey(item) == <<-item.score>> \o item.tuple \o <<item.id>>

TieKey(item) ==
    CASE item.kind = "face" -> FaceTieKey(item)
      [] item.kind = "edge" -> EdgeTieKey(item)
      [] OTHER -> VertexTieKey(item)

\* Python's comparison of two tuples of equal length, element by element.
RECURSIVE TupleLess(_, _)
TupleLess(a, b) ==
    IF a = <<>> \/ b = <<>> THEN FALSE
    ELSE IF Head(a) < Head(b) THEN TRUE
    ELSE IF Head(a) > Head(b) THEN FALSE
    ELSE TupleLess(Tail(a), Tail(b))

\* the score an entity gets from the resolver of the selector's kind
ScoreOf(e, sel) ==
    CASE sel.kind = "face" -> FaceScore(e, sel)
      [] sel.kind = "edge" -> EdgeScore(e, sel)
      [] OTHER -> VertexScore(e, sel)

\* the magnitude stored in a candidate: area_mm2, length_mm, none for a vertex
MagOf(e, sel) ==
    CASE sel.kind = "face" -> FaceAreaMm2(e)
      [] sel.kind = "edge" -> EdgeLengthMm(e)
      [] OTHER -> None

\* candidates.append({...}) for one surviving entity
Candidate(e, sel) ==
    [kind |-> sel.kind, h |-> e.h, score |-> ScoreOf(e, sel)[1], mag |-> MagOf(e, sel),
     tuple |-> PointTupleMm(e.pos), id |-> EntityIdStr(e)]

\* the loop over the enumeration: candidates in enumeration order
RECURSIVE Candidates(_, _)
Candidates(entities, sel) ==
    IF entities = <<>> THEN <<>>
    ELSE IF IsNone(ScoreOf(Head(entities), sel))
         THEN Candidates(Tail(entities), sel)
         ELSE <<Candidate(Head(entities), sel)>> \o Candidates(Tail(entities), sel)

\* list.sort(key=_tie_key): a stable ascending sort.  An item is inserted
\* behind every item whose key is not greater than its own.
RECURSIVE InsertByKey(_, _)
InsertByKey(item, sorted) ==
    IF sorted = <<>> THEN <<item>>
    ELSE IF TupleLess(TieKey(item), TieKey(Head(sorted)))
         THEN <<item>> \o sorted
         ELSE <<Head(sorted)>> \o InsertByKey(item, Tail(sorted))

RECURSIVE SortByTieKeyFrom(_, _)
SortByTieKeyFrom(items, sorted) ==
    IF items = <<>> THEN sorted
    ELSE SortByTieKeyFrom(Tail(items), InsertByKey(Head(items), sorted))

SortByTieKey(items) == SortByTieKeyFrom(items, <<>>)

NoWinner == [winner |-> 0, n |-> 0]

\* the tail of every resolver: (None, 0) for no candidate, else the first
\* candidate of the sorted list and the number of candidates
PickWinner(candidates) ==
    IF candidates = <<>> THEN NoWinner
    ELSE [winner |-> SortByTieKey(candidates)[1].h, n |-> Len(candidates)]

\* _select_face
SelectFace(entities, sel) == PickWinner(Candidates(entities, sel))

\* _select_edge: (None, 0) when enumerating entity.edges raises
SelectEdge(entities, sel, readable) ==
    IF ~readable THEN NoWinner ELSE PickWinner(Candidates(entities, sel))

\* _select_vertex: (None, 0) when enumerating entity.vertices raises
SelectVertex(entities, sel, readable) ==
    IF ~readable THEN NoWinner ELSE PickWinner(Candidates(entities, sel))

Select(entities, sel, readable) ==
    CASE sel.kind = "face" -> SelectFace(entities, sel)
      [] sel.kind = "edge" -> SelectEdge(entities, sel, readable)
      [] OTHER -> SelectVertex(entities, sel, readable)

(***************************************************************************)
(* Selector strings and their parsing.                                     *)
(***************************************************************************)
NoSelector == [kind |-> "none", type |-> "none", axis |-> "", point |-> None]

\* _parse_face_selector, on the strings the model draws
ParseFaceSelector(str) ==
    CASE str = "largest_planar" -> [kind |-> "face", type |-> "largest_planar", axis |-> "", point |-> None]
      [] str = "largest_area" -> [kind |-> "face", type |-> "largest_area", axis |-> "", point |-> None]
      [] str = "normal_closest:+Z" -> [kind |-> "face", type |-> "normal_closest", axis |-> "+Z", point |-> None]
      [] str = "normal_closest:-X" -> [kind |-> "face", type |-> "normal_closest", axis |-> "-X", point |-> None]
      [] str = "max_bbox_z" -> [kind |-> "face", type |-> "max_bbox", axis |-> "z", point |-> None]
      [] str = "min_bbox_z" -> [kind |-> "face", type |-> "min_bbox", axis |-> "z", point |-> None]
      [] OTHER -> NoSelector

\* _parse_edge_selector
ParseEdgeSelector(str) ==
    CASE str = "longest_edge" -> [kind |-> "edge", type |-> "longest_edge", axis |-> "", point |-> None]
      [] str = "normal_closest:+Z" -> [kind |-> "edge", type |-> "normal_closest", axis |-> "+Z", point |-> None]
      [] str = "normal_closest:-X" -> [kind |-> "edge", type |-> "normal_closest", axis |-> "-X", point |-> None]
      [] str = "closest_to_point" -> [kind |-> "edge", type |-> "closest_to_point", axis |-> "", point |-> None]
      [] OTHER -> NoSelector

\* _parse_vertex_selector
ParseVertexSelector(str) ==
    CASE str = "closest_to_point" -> [kind |-> "vertex", type |-> "closest_to_point", axis |-> "", point |-> None]
      [] OTHER -> NoSelector

ParseSelector(kind, str) ==
    CASE kind = "face" -> ParseFaceSelector(str)
      [] kind = "edge" -> ParseEdgeSelector(str)
      [] OTHER -> ParseVertexSelector(str)

\* the selector strings a request may carry, per resolver
SelectorStrings(kind) ==
    CASE kind = "face" -> {"largest_planar", "largest_area", "normal_closest:+Z",
                           "max_bbox_z", "min_bbox_z", "smallest"}
      [] kind = "edge" -> {"longest_edge", "normal_closest:+Z", "closest_to_point", "largest_planar"}
      [] OTHER -> {"closest_to_point", "longest_edge"}

\* the reference points (mm) a request may carry for closest_to_point
RequestPoints == {None, <<0, 0, 0>>}

(***************************************************************************)
(* What the host can present.  A face, edge or vertex is either fully      *)
(* readable (a planar face), with every attribute the resolver reads drawn *)
(* from a small set, or it is the largest such entity with one thing       *)
(* changed: a curved face, a geometry that raises, or one unreadable       *)
(* attribute.  The token may be unreadable in any entity.                  *)
(***************************************************************************)
Positions == {<<0, 0, 0>>, <<1, 0, 0>>}

Magnitudes == {1, 2}

Vectors == {<<0, 0, 1>>, <<0, 0, -1>>}

Boxes == {<< <<0, 0, 0>>, <<1, 1, 1>> >>, << <<0, 0, 1>>, <<1, 1, 2>> >>}

\* an absent area or length is a skip only where it is the score
MagnitudeIsScore(sel) == sel.type \in {"largest_planar", "largest_area", "longest_edge"}

MagSet(sel) ==
    IF sel.kind = "vertex" THEN {None}
    ELSE IF MagnitudeIsScore(sel) THEN {Some(m) : m \in Magnitudes}
    ELSE {None} \cup {Some(m) : m \in Magnitudes}

VecSet(sel) == IF sel.type = "normal_closest" THEN Vectors ELSE {None}

BoxSet(sel) == IF sel.type \in {"max_bbox", "min_bbox"} THEN Boxes ELSE {None}

ReadableShapes(sel) ==
    [geom : {"plane"}, pos : Positions, mag : MagSet(sel), vec : VecSet(sel), bbox : BoxSet(sel)]

LargestShape(sel) ==
    CHOOSE s \in ReadableShapes(sel) :
      /\ s.pos = <<0, 0, 0>>
      /\ sel.kind # "vertex" => s.mag = Some(2)
      /\ sel.type = "normal_closest" => s.vec = <<0, 0, 1>>
      /\ sel.type \in {"max_bbox", "min_bbox"} => s.bbox[2][3] = 2

VariantShapes(sel) ==
    LET d == LargestShape(sel)
    IN  {[d EXCEPT !.pos = None]}
        \cup (IF sel.kind = "face"
              THEN {[d EXCEPT !.geom = "curved"], [d EXCEPT !.geom = "raises"]} ELSE {})
        \cup (IF MagnitudeIsScore(sel) THEN {[d EXCEPT !.mag = None]} ELSE {})
        \cup (IF sel.type = "normal_closest" THEN {[d EXCEPT !.vec = None]} ELSE {})
        \cup (IF sel.type \in {"max_bbox", "min_bbox"} THEN {[d EXCEPT !.bbox = None]} ELSE {})

EntityShapes(sel) == ReadableShapes(sel) \cup VariantShapes(sel)

\* the entity with handle h, token tok and the attributes of shape s
Entity(h, tok, s) ==
    [h |-> h, token |-> tok, geom |-> s.geom, pos |-> s.pos, mag |-> s.mag,
     vec |-> s.vec, bbox |-> s.bbox]

(***************************************************************************)
(* The resolution state machine (specification SpecSel).                   *)
(*   pool      the entities in the order the host enumerates them          *)
(*   selector  [kind, str, point]: the resolver called, the selector       *)
(*             string and the reference point of the request               *)
(*   enumOk    whether enumerating entity.edges / entity.vertices works    *)
(*   result    [status, winner, n]                                         *)
(***************************************************************************)
Pending == [status |-> "pending", winner |-> 0, n |-> 0]

Parsed == [ParseSelector(selector.kind, selector.str) EXCEPT !.point = selector.point]


(***************************************************************************)
(* The mutating commands.                                                  *)
(***************************************************************************)
Commands ==
    {"extrude_feature", "extrude_profile", "fillet_feature", "hole_feature",
     "shell_feature", "revolve_feature", "mirror_feature", "pattern_feature"}

\* MAX_APPLY_MS of each command module
MaxApplyMs(cmd) ==
    CASE cmd \in {"extrude_feature", "revolve_feature", "mirror_feature"} -> 1500
      [] OTHER -> 5000

\* a table in which hole_feature has the face limit of fillet_feature
MaxFaceDeltaHoleAsFillet(cmd) ==
    CASE cmd = "extrude_feature" -> 150
      [] cmd \in {"extrude_profile", "fillet_feature", "hole_feature"} -> 300
      [] cmd \in {"revolve_feature", "mirror_feature"} -> 400
      [] OTHER -> 500

\* MAX_FACE_DELTA of each command module
MaxFaceDelta(cmd) ==
    CASE cmd = "extrude_feature" -> 150
      [] cmd = "hole_feature" -> 200
      [] cmd \in {"extrude_profile", "fillet_feature"} -> 300
      [] cmd \in {"revolve_feature", "mirror_feature"} -> 400
      [] OTHER -> 500

\* MAX_EDGE_DELTA of each command module
MaxEdgeDelta(cmd) ==
    CASE cmd = "extrude_feature" -> 300
      [] cmd = "hole_feature" -> 400
      [] cmd \in {"extrude_profile", "fillet_feature"} -> 600
      [] cmd \in {"revolve_feature", "mirror_feature"} -> 800
      [] OTHER -> 1000

\* MAX_BODY_DELTA of each command module
MaxBodyDelta(cmd) ==
    CASE cmd = "revolve_feature" -> 5
      [] cmd = "mirror_feature" -> 10
      [] cmd = "pattern_feature" -> 20
      [] OTHER -> 1

\* the commands whose handler reads the request's "compute" flag
ReadsComputeFlag(cmd) == cmd \in {"extrude_feature", "extrude_profile", "fillet_feature"}

\* the commands whose rollback recomputes only `if compute`
RollbackHonoursComputeFlag(cmd) == cmd \in {"extrude_feature", "extrude_profile"}

\* the commands that take an "operation"
TakesOperation(cmd) == cmd \in {"extrude_feature", "extrude_profile", "revolve_feature"}

\* the error of the except block around the host operation
ApplyFailedError(cmd, variant) ==
    CASE cmd = "extrude_feature" -> "Extrude failed"
      [] cmd = "extrude_profile" -> "Extrude profile failed"
      [] cmd = "fillet_feature" -> "Fillet failed"
      [] cmd = "hole_feature" -> "Hole feature failed"
      [] cmd = "shell_feature" -> "Shell failed"
      [] cmd = "revolve_feature" -> "Revolve failed"
      [] cmd = "mirror_feature" -> "Mirror failed"
      [] OTHER -> IF variant = "rectangular" THEN "Rectangular pattern failed"
                  ELSE "Circular pattern failed"

(***************************************************************************)
(* Requests.  A request is                                                 *)
(*   cmd        the command                                                *)
(*   preview    the "preview" flag                                         *)
(*   compute    the "compute" flag (read by three of the handlers)         *)
(*   variant    the "operation" (extrudes, revolve) or the "pattern_type"  *)
(*   by         how the target is named: an id, a selector, an axis line   *)
(*   body_name  "" when absent                                             *)
(*   distance   the "distance_mm" of an extrude_feature request            *)
(*   depth      what a hole_feature or extrude_profile request says of the *)
(*              depth: "numeric" (depth_mm / distance_mm alone),           *)
(*              "through_all" (through_all=true alone), "both", "neither"  *)
(*   defect     "" for a request whose fields all validate, else the       *)
(*              error of the check that the request's fields fail, or the  *)
(*              mark of a shell_feature request without remove_faces on a  *)
(*              body where largest_planar matches no face, or the mark of  *)
(*              a revolve_feature request whose axis_selector is           *)
(*              closest_to_point                                           *)
(***************************************************************************)
\* MAX_EXTRUDE_MM of extrude_feature
MaxExtrudeMm == 50

\* Lengths of a request are counted in millionths of a millimetre.
ToMicro(mm) == mm * 1000000

\* A JSON value in a numeric field: a finite number, NaN or Infinity (which
\* json.loads accepts, and float() makes of the strings "nan" and "inf"), or
\* something float() raises on (null, an object, a word).
Number(micro) == [kind |-> "number", micro |-> micro]

NotANumber == [kind |-> "nan", micro |-> 0]

Infinity == [kind |-> "inf", micro |-> 0]

NonNumeric == [kind |-> "text", micro |-> 0]

\* the distance_mm values the model draws
DistanceInputs ==
    {Number(m) : m \in {-1, 0, 1, ToMicro(MaxExtrudeMm), ToMicro(MaxExtrudeMm) + 1}}
    \cup {NotANumber, Infinity, NonNumeric}

\* float(distance_mm): None when it raises
ToFloat(v) == IF v.kind = "text" THEN None ELSE Some(v)

\* distance_mm <= 0: every comparison with NaN is false
AtMostZero(v) == v.kind = "number" /\ v.micro <= 0

\* distance_mm > MAX_EXTRUDE_MM
ExceedsMaxExtrude(v) ==
    v.kind = "inf" \/ (v.kind = "number" /\ v.micro > ToMicro(MaxExtrudeMm))

DistanceErrors ==
    {"distance_mm must be a number", "distance_mm must be > 0", "distance_mm exceeds MAX_EXTRUDE_MM"}

\* the three distance checks of extrude_feature, "" when the value passes
DistanceError(v) ==
    IF IsNone(ToFloat(v)) THEN "distance_mm must be a number"
    ELSE IF AtMostZero(v) THEN "distance_mm must be > 0"
    ELSE IF ExceedsMaxExtrude(v) THEN "distance_mm exceeds MAX_EXTRUDE_MM"
    ELSE ""

Variants(cmd) ==
    CASE TakesOperation(cmd) -> {"new_body", "join"}
      [] cmd = "pattern_feature" -> {"rectangular", "circular"}
      [] OTHER -> {"none"}

TargetModes(cmd) ==
    CASE cmd = "extrude_feature" -> {"face_selector"}
      [] cmd = "extrude_profile" -> {"profile"}
      [] cmd = "fillet_feature" -> {"edge_id", "edge_selector"}
      [] cmd = "hole_feature" -> {"face_id", "face_selector"}
      [] cmd = "shell_feature" -> {"body"}
      [] cmd = "revolve_feature" -> {"edge_id", "axis_selector", "axis_line_mm"}
      [] OTHER -> {"feature_id", "body_name"}

\* The checks of each handler before its plan is assembled, in the order of
\* the code.  An entry is the error the check returns; "BODY" stands for
\* _resolve_body and the three errors it can lead to.
FieldChecks(cmd, variant, by) ==
    <<"No active design.">> \o
    CASE cmd = "extrude_feature" ->
           <<"Unsupported units", "Unsupported face_selector", "Unsupported operation",
             "Unsupported direction", "distance_mm must be a number", "distance_mm must be > 0",
             "distance_mm exceeds MAX_EXTRUDE_MM", "BODY", "No planar faces matched selector.">>
      [] cmd = "extrude_profile" ->
           <<"sketch_id is required", "profile_index must be an integer",
             "distance_mm must be a number", "distance_mm must be > 0",
             "distance_mm exceeds MAX_DISTANCE_MM", "Unsupported direction",
             "Unsupported operation", "sketch_id not found", "Profile not found at index",
             "BODY">>
      [] cmd = "fillet_feature" ->
           <<"edge_id or edge_selector is required", "radius_mm must be numeric",
             "radius_mm must be > 0", "radius_mm exceeds MAX_RADIUS_MM">>
           \o (IF by = "edge_id" THEN <<"edge_id not found">>
               ELSE <<"Unsupported edge_selector", "BODY",
                      "point_mm is required for closest_to_point", "No edges matched selector.">>)
      [] cmd = "hole_feature" ->
           <<"face_selector or face_id is required", "center_mm must be an object with x,y,z",
             "center_mm and diameter_mm must be numeric", "diameter_mm must be > 0",
             "depth_mm must be numeric when through_all is false", "depth_mm must be > 0",
             "depth_mm exceeds MAX_DISTANCE_MM">>
           \o (IF by = "face_id" THEN <<"face_id not found">>
               ELSE <<"Unsupported face_selector", "BODY", "No faces matched selector.">>)
      [] cmd = "shell_feature" ->
           <<"thickness_mm must be numeric", "thickness_mm must be > 0",
             "thickness_mm exceeds MAX_DISTANCE_MM", "BODY",
             "remove_faces must be a list of face ids", "One or more remove_faces ids not found">>
      [] cmd = "revolve_feature" ->
           <<"profile_sketch_id is required", "angle_deg must be numeric", "Unsupported operation",
             "profile_sketch_id not found", "Failed to resolve profile from profile_curve_ids",
             "axis_selector, edge_id, or axis_line_mm is required">>
           \o (IF by = "edge_id" THEN <<"edge_id not found">>
               ELSE IF by = "axis_selector"
                    THEN <<"Unsupported axis_selector", "BODY", "No edges matched axis_selector.">>
               ELSE <<"axis_line_mm must be an object with p1 and p2",
                      "axis_line_mm must include p1 and p2 points",
                      "axis_line_mm points must be numeric">>)
      [] cmd = "mirror_feature" ->
           <<"feature_id or body_name is required">>
           \o (IF by = "feature_id" THEN <<"feature_id not found">> ELSE <<"BODY">>)
           \o <<"face_id not found", "mirror_plane must be XY, YZ, XZ, or face_id must be provided">>
      [] OTHER ->
           <<"pattern_type must be rectangular or circular">>
           \o (IF by = "feature_id" THEN <<"feature_id not found">> ELSE <<"BODY">>)
           \o (IF variant = "rectangular"
               THEN <<"count1/count2 must be ints and spacing1/spacing2 must be numbers",
                      "count1 and count2 must be > 0", "spacing1_mm and spacing2_mm must be > 0",
                      "spacing exceeds MAX_DISTANCE_MM", "axis1 and axis2 must be X, Y, or Z">>
               ELSE <<"count must be int and angle_deg must be numeric", "count must be > 0",
                      "axis must be X, Y, or Z">>)

SeqRange(seq) == {seq[i] : i \in 1..Len(seq)}

\* shell_feature without remove_faces resolves "largest_planar" itself; when
\* nothing is selected it goes on with no face to remove and returns no error
NoFaceToRemove == "largest_planar matched no face"

\* revolve_feature reads no point_mm and calls _select_edge without one, so
\* an axis_selector of closest_to_point never has a reference point
NoPointForAxis == "axis_selector closest_to_point without point"

\* the field defects a request of this shape can have
Defects(cmd, variant, by) ==
    ((SeqRange(FieldChecks(cmd, variant, by)) \ {"BODY"})
       \ (IF cmd = "extrude_feature" THEN DistanceErrors ELSE {}))
    \cup (IF cmd = "shell_feature" THEN {NoFaceToRemove} ELSE {})
    \cup (IF cmd = "revolve_feature" /\ by = "axis_selector" THEN {NoPointForAxis} ELSE {})

\* the check that request r fails: _select_edge skips every edge when it has
\* no point, so the closest_to_point axis_selector fails the check of
\* `if not selected`
FailedCheck(r) ==
    IF r.defect = NoPointForAxis THEN "No edges matched axis_selector." ELSE r.defect

\* the body names a request may carry: none, the name of body 1, a name no
\* body has
BodyNames == {"", "Body1", "Ghost"}

\* body.name
BodyName(b) == IF b = 1 THEN "Body1" ELSE "Body"

ValidRequests ==
    {r \in [cmd : Commands, preview : BOOLEAN, compute : BOOLEAN,
            variant : {"new_body", "join", "rectangular", "circular", "none"},
            by : {"face_selector", "profile", "edge_id", "edge_selector", "face_id", "body",
                  "axis_selector", "axis_line_mm", "feature_id", "body_name"},
            body_name : {"", "Body1"}, distance : {Number(ToMicro(MaxExtrudeMm))},
            depth : {"numeric"}, defect : {""}] :
       /\ r.variant \in Variants(r.cmd)
       /\ r.by \in TargetModes(r.cmd)
       /\ ~ReadsComputeFlag(r.cmd) => r.compute
       /\ r.by \in {"edge_id", "face_id", "feature_id", "axis_line_mm"} => r.body_name = ""
       /\ r.by = "body_name" => r.body_name = "Body1"}

\* One request per command, target mode and defect, as preview and as apply;
\* and requests that name a body the document does not have.
DefectiveRequests ==
    {[r EXCEPT !.defect = d] :
       r \in {v \in ValidRequests : v.compute /\ v.variant \in {"new_body", "rectangular", "none"}
                                    /\ v.body_name \in {"", "Body1"}},
       d \in UNION {Defects(c, v, b) : c \in Commands, v \in {"new_body", "rectangular", "circular", "none"},
                                      b \in {"face_selector", "profile", "edge_id", "edge_selector",
                                             "face_id", "body", "axis_selector", "axis_line_mm",
                                             "feature_id", "body_name"}}}

\* extrude_feature requests with each of the distance_mm values
DistanceRequests ==
    {[r EXCEPT !.distance = d] :
       r \in {v \in ValidRequests : v.cmd = "extrude_feature" /\ v.compute
                                    /\ v.variant = "join" /\ v.body_name = ""},
       d \in DistanceInputs}

\* hole_feature and extrude_profile requests with each combination of
\* through_all and a numeric depth
DepthRequests ==
    {[r EXCEPT !.depth = m] :
       r \in {v \in ValidRequests : v.cmd \in {"hole_feature", "extrude_profile"} /\ v.compute
                                    /\ v.variant \in {"none", "join"} /\ v.body_name = ""},
       m \in {"through_all", "both", "neither"}}

\* extrude_feature requests with the operations that remove material
OperationRequests ==
    {[r EXCEPT !.variant = o] :
       r \in {v \in ValidRequests : v.cmd = "extrude_feature" /\ v.compute
                                    /\ v.variant = "join" /\ v.body_name = ""},
       o \in {"cut", "intersect"}}

Requests ==
    ValidRequests
    \cup DistanceRequests
    \cup OperationRequests
    \cup DepthRequests
    \cup {r \in DefectiveRequests : r.defect \in Defects(r.cmd, r.variant, r.by)}
    \cup {[r EXCEPT !.body_name = "Ghost"] :
            r \in {v \in ValidRequests : v.compute /\ v.body_name = "Body1"}}

(***************************************************************************)
(* The document.                                                           *)
(*   bodies, faces, edges  the visible solid bodies (their handles) and    *)
(*             their aggregate face and edge counts, before any feature    *)
(*             of this session                                             *)
(*   features  the features this session added to the timeline, each with  *)
(*             its effect on the topology: the face and edge count deltas, *)
(*             the bodies it adds and the bodies it consumes               *)
(*   sketches, axes  the number of sketches and of construction axes       *)
(* A body's identity token is readable, so _body_key is ("id", token).     *)
(***************************************************************************)
InitialDoc(bodies) ==
    [bodies |-> bodies, faces |-> 6 * Cardinality(bodies), edges |-> 12 * Cardinality(bodies),
     features |-> <<>>, sketches |-> 0, axes |-> 0]

RECURSIVE BodiesAfter(_, _)
BodiesAfter(bodies, features) ==
    IF features = <<>> THEN bodies
    ELSE BodiesAfter((bodies \ Head(features).removed) \cup Head(features).added, Tail(features))

RECURSIVE SumOf(_, _)
SumOf(features, field) ==
    IF features = <<>> THEN 0 ELSE Head(features)[field] + SumOf(Tail(features), field)

\* _list_visible_bodies
ListVisibleBodies(d) == BodiesAfter(d.bodies, d.features)

\* _total_counts over the visible bodies
TotalCounts(d) ==
    [faces |-> d.faces + SumOf(d.features, "faces"), edges |-> d.edges + SumOf(d.features, "edges")]

\* _body_key
BodyKey(b) == <<"id", b>>

\* _resolve_body: 0 stands for None
ResolveBody(d, body_name) ==
    LET bodies == ListVisibleBodies(d)
    IN  IF body_name # ""
        THEN IF \E b \in bodies : BodyName(b) = body_name
             THEN CHOOSE b \in bodies : BodyName(b) = body_name
             ELSE 0
        ELSE IF Cardinality(bodies) = 1 THEN CHOOSE b \in bodies : TRUE
        ELSE 0

\* the error a handler returns when _resolve_body found no body
BodyError(d, body_name) ==
    IF body_name # "" THEN "Body not found"
    ELSE IF ListVisibleBodies(d) = {} THEN "No visible solid body found."
    ELSE "Multiple visible bodies; specify body_name."

\* bool(request.get("through_all", False))
ThroughAll(r) == r.depth \in {"through_all", "both"}

\* the checks under `if not through_all:` in hole_feature and extrude_profile
DepthChecks(cmd) ==
    IF cmd = "hole_feature"
    THEN {"depth_mm must be numeric when through_all is false", "depth_mm must be > 0",
          "depth_mm exceeds MAX_DISTANCE_MM"}
    ELSE IF cmd = "extrude_profile"
    THEN {"distance_mm must be a number", "distance_mm must be > 0",
          "distance_mm exceeds MAX_DISTANCE_MM"}
    ELSE {}

\* float(depth_mm) raises when the request has no numeric depth
DepthNotNumeric(cmd) ==
    IF cmd = "hole_feature" THEN "depth_mm must be numeric when through_all is false"
    ELSE "distance_mm must be a number"

\* whether request r fails a check of the depth block: the block is skipped
\* when through_all is true
DepthCheckFails(check, r) ==
    ~ThroughAll(r) /\ (FailedCheck(r) = check
                        \/ (check = DepthNotNumeric(r.cmd) /\ r.depth = "neither"))

\* whether the handler calls _resolve_body at its "BODY" check
ResolvesBody(r) == r.cmd = "extrude_profile" => r.body_name # ""

\* the first check that fails, "" when all pass
RECURSIVE FirstFailure(_, _, _)
FirstFailure(checks, r, d) ==
    IF checks = <<>> THEN ""
    ELSE IF Head(checks) = "BODY"
         THEN IF ResolvesBody(r) /\ ResolveBody(d, r.body_name) = 0
              THEN BodyError(d, r.body_name)
              ELSE FirstFailure(Tail(checks), r, d)
    ELSE IF r.cmd = "extrude_feature" /\ Head(checks) \in DistanceErrors
         THEN IF DistanceError(r.distance) = Head(checks) THEN Head(checks)
              ELSE FirstFailure(Tail(checks), r, d)
    ELSE IF Head(checks) \in DepthChecks(r.cmd)
         THEN IF DepthCheckFails(Head(checks), r) THEN Head(checks)
              ELSE FirstFailure(Tail(checks), r, d)
    ELSE IF Head(checks) = FailedCheck(r) THEN Head(checks)
    ELSE FirstFailure(Tail(checks), r, d)

\* the PLAN step's validation of request r against document d
Validate(r, d) == FirstFailure(FieldChecks(r.cmd, r.variant, r.by), r, d)

(***************************************************************************)
(* Plans and responses.                                                    *)
(***************************************************************************)
\* the commands whose plan names the body that _resolve_body returned
PlanNamesBody(r) ==
    \/ r.cmd \in {"extrude_feature", "shell_feature"}
    \/ r.cmd = "hole_feature" /\ r.by = "face_selector"

\* the commands whose plan carries the id of the entity a selector chose
PlanNamesTarget(r) ==
    \/ r.cmd \in {"extrude_feature", "shell_feature"}
    \/ r.cmd = "hole_feature" /\ r.by = "face_selector"
    \/ r.cmd = "fillet_feature" /\ r.by = "edge_selector"

\* the token of the entity the selector chooses: it is a function of the
\* document's topology, which changes with every feature of the timeline
SelectedEntity(d) == Len(d.features) + 1

\* a plan that names the construction axis built for it
PlanOfNamingAxis(r, d) ==
    [cmd |-> r.cmd, variant |-> r.variant, by |-> r.by, body_name |-> r.body_name,
     body |-> IF PlanNamesBody(r) THEN BodyName(ResolveBody(d, r.body_name)) ELSE "",
     target |-> IF r.by = "axis_line_mm" THEN d.axes ELSE 0]

\* a plan that differs between preview and apply
PlanOfPerMode(r, d) ==
    [cmd |-> r.cmd, variant |-> r.variant, by |-> r.by, body_name |-> r.body_name,
     body |-> IF r.preview THEN "" ELSE "Body",
     target |-> IF PlanNamesTarget(r) THEN SelectedEntity(d) ELSE 0]

\* the plan dictionary of each handler
PlanOf(r, d) ==
    [cmd |-> r.cmd, variant |-> r.variant, by |-> r.by, body_name |-> r.body_name,
     body |-> IF PlanNamesBody(r) THEN BodyName(ResolveBody(d, r.body_name)) ELSE "",
     target |-> IF PlanNamesTarget(r) /\ r.defect # NoFaceToRemove THEN SelectedEntity(d) ELSE 0]

NoRequest ==
    [cmd |-> "none", preview |-> TRUE, compute |-> TRUE, variant |-> "none", by |-> "none",
     body_name |-> "", distance |-> Number(ToMicro(MaxExtrudeMm)),
     depth |-> "numeric", defect |-> ""]

NoResponse ==
    [sent |-> FALSE, ok |-> FALSE, error |-> "", plan |-> None, data |-> {},
     compute_ran |-> FALSE, measured |-> 0, source_body |-> 0,
     measure_before |-> None, measure_after |-> None, verify |-> None]

\* a rejection that answers ok=true
RejectedAsAccepted(error) == [NoResponse EXCEPT !.sent = TRUE, !.ok = TRUE, !.error = error]

\* return {"ok": False, "error": error}
Rejected(error) == [NoResponse EXCEPT !.sent = TRUE, !.error = error]

\* a failure response that carries an apply payload beside the plan
FailedWithApplyPayload(error, plan) ==
    [NoResponse EXCEPT !.sent = TRUE, !.error = error, !.plan = Some(plan),
                       !.data = {"preview", "apply"}]

\* return {"ok": False, "error": error, "data": {"preview": {"plan": plan}}}
Failed(error, plan) ==
    [NoResponse EXCEPT !.sent = TRUE, !.error = error, !.plan = Some(plan), !.data = {"preview"}]

\* the response to preview=true: the keys of data that hold a value
Previewed(r, d) ==
    [NoResponse EXCEPT !.sent = TRUE, !.ok = TRUE, !.plan = Some(PlanOf(r, d)),
                       !.data = IF r.cmd = "extrude_feature"
                                THEN {"preview", "measure_before", "trace"}
                                ELSE {"preview"}]

\* the response of a committed apply
Committed(r, plan, compute_ran, new_body, body) ==
    [NoResponse EXCEPT !.sent = TRUE, !.ok = TRUE, !.plan = Some(plan),
                       !.compute_ran = compute_ran,
                       !.data = IF r.cmd = "extrude_feature"
                                THEN {"preview", "apply", "measure_before", "measure_after",
                                      "verify", "trace"}
                                ELSE {"preview", "apply"},
                       !.measured = IF r.cmd # "extrude_feature" THEN 0
                                    ELSE IF new_body # 0 THEN new_body ELSE body,
                       !.source_body = IF r.cmd = "extrude_feature" /\ new_body # 0
                                       THEN body ELSE 0]

(***************************************************************************)
(* Measuring a body.  A reading is what the host lets a handler read of a  *)
(* body: the bounding box (a value, nothing, or the property raises), the  *)
(* physical properties object (likewise), and its volume and area (a       *)
(* value, or the property raises).  A metric of a measurement is Some of   *)
(* a value, or None for null.                                              *)
(***************************************************************************)
BodyReadings ==
    [bbox : {"value", "none", "raises"}, props : {"value", "none", "raises"},
     volume : {"value", "raises"}, area : {"value", "raises"}]

\* _bbox_mm: None when the bounding box raises or is empty
BboxMm(reading) == IF reading.bbox = "value" THEN Some("bbox") ELSE None

\* _volume_mm3: None when physicalProperties raises or is empty, or when
\* its volume raises
VolumeMm3(reading) ==
    IF reading.props = "value" /\ reading.volume = "value" THEN Some("volume") ELSE None

\* props.area inside _physical_props
AreaMm2(reading) ==
    IF reading.props = "value" /\ reading.area = "value" THEN Some("area") ELSE None

\* _body_measurement
BodyMeasurement(reading) ==
    [returned |-> TRUE, bbox_mm |-> BboxMm(reading), volume_mm3 |-> VolumeMm3(reading),
     area_mm2 |-> None, counts |-> TRUE]

\* a get_body_info that reports a missing bounding box as null
GetBodyInfoNullBbox(reading) ==
    [returned |-> TRUE, bbox_mm |-> BboxMm(reading), volume_mm3 |-> VolumeMm3(reading),
     area_mm2 |-> AreaMm2(reading), counts |-> TRUE]

\* the data of get_body_info for a resolved body: without a bounding box
\* the handler returns "Failed to read body bounding box." and no data
GetBodyInfo(reading) ==
    IF BboxMm(reading) = None
    THEN [returned |-> FALSE, bbox_mm |-> None, volume_mm3 |-> None, area_mm2 |-> None,
          counts |-> FALSE]
    ELSE [returned |-> TRUE, bbox_mm |-> BboxMm(reading), volume_mm3 |-> VolumeMm3(reading),
          area_mm2 |-> AreaMm2(reading), counts |-> TRUE]

\* _has_bbox and _has_volume of the verify block
HasBbox(measure) == measure.bbox_mm # None

HasVolume(measure) == measure.volume_mm3 # None

\* a verify block that requires the volume for every operation
RequireVolumeAlways(operation) == TRUE

\* require_volume
RequireVolume(operation) == operation \in {"join", "cut", "intersect"}

\* VERIFY of extrude_feature: required_pass and the warnings; after is the
\* measurement of the new body when there is one
Verify(operation, before, after, new_body) ==
    LET bbox_missing == ~HasBbox(before) \/ ~HasBbox(after)
        volume_missing == ~HasVolume(before) \/ ~HasVolume(after)
        require_volume == RequireVolume(operation)
    IN  [required_pass |->
            /\ ~bbox_missing
            /\ ~(require_volume /\ volume_missing)
            /\ ~(new_body /\ ~HasBbox(after))
            /\ ~(new_body /\ require_volume /\ ~HasVolume(after)),
         warnings |->
            (IF bbox_missing THEN {"bbox measurement missing"} ELSE {})
            \cup (IF require_volume /\ volume_missing THEN {"volume measurement missing"}
                  ELSE IF volume_missing THEN {"volume measurement missing (advisory)"}
                  ELSE {})
            \cup (IF new_body /\ ~HasBbox(after) THEN {"new_body bbox missing"} ELSE {})
            \cup (IF new_body /\ require_volume /\ ~HasVolume(after)
                  THEN {"new_body volume missing"} ELSE {})
            \cup {"face_span not computed (no selector provided)"}]

\* the locals of a handler between its steps
NoFrame ==
    [plan |-> None, before_bodies |-> {}, before_faces |-> 0, before_edges |-> 0,
     body |-> 0, feature |-> 0, compute_ran |-> FALSE, timing_ms |-> 0, error |-> "",
     new_body |-> 0, elapsed_ms |-> 0, measure_before |-> None]

\* what the session remembers of the request before the current one: its
\* fields, the plan of its response, and the document it was received in
NoPrev == [req |-> NoRequest, plan |-> None, doc |-> InitialDoc({})]

\* the host calls that change the document
HostCalls == {"create_axis", "create_sketch", "create_feature", "delete_feature", "compute"}

(***************************************************************************)
(* The host's answers to an apply.                                         *)
(***************************************************************************)
\* (time.time() - start_time) * 1000.0: at the threshold or just above it
ElapsedMs(cmd) == {MaxApplyMs(cmd), MaxApplyMs(cmd) + 1}

FaceDeltas(cmd) == {MaxFaceDelta(cmd), MaxFaceDelta(cmd) + 1}

EdgeDeltas(cmd) == {MaxEdgeDelta(cmd), MaxEdgeDelta(cmd) + 1}

\* <<bodies the feature adds, bodies it consumes>>; the commands that take
\* an operation may add two bodies and consume one
BodyEffects(cmd) ==
    {<<0, 0>>, <<1, 0>>, <<MaxBodyDelta(cmd) + 1, 0>>}
    \cup (IF TakesOperation(cmd) THEN {<<2, 0>>, <<2, 1>>} ELSE {})

\* the feature the host adds to document d
Feature(d, fd, ed, be) ==
    LET id == Len(d.features) + 1
        visible == ListVisibleBodies(d)
    IN  [id |-> id, faces |-> fd, edges |-> ed,
         added |-> {100 * id + k : k \in 1..be[1]},
         removed |-> IF be[2] = 0 \/ visible = {} THEN {}
                     ELSE IF be[2] = 1 THEN {CHOOSE b \in visible : \A c \in visible : b <= c}
                     ELSE visible]

\* what the host's operation does to the document: it adds faces, edges and
\* bodies, or (a cut through everything) it consumes every visible body with
\* its faces and edges
HostEffects(cmd, d) ==
    {<<fd, ed, be>> : fd \in FaceDeltas(cmd), ed \in EdgeDeltas(cmd), be \in BodyEffects(cmd)}
    \cup (IF ListVisibleBodies(d) = {} THEN {}
          ELSE {<<0 - TotalCounts(d).faces, 0 - TotalCounts(d).edges, <<0, 2>>>>})

\* feature.deleteMe() that succeeded: the feature added last leaves the timeline
WithoutLastFeature(d) == [d EXCEPT !.features = SubSeq(d.features, 1, Len(d.features) - 1)]

\* an except block that leaves the created feature alone
CleanupCallsNone(feature) == <<>>

\* the except block around the host operation: feature.deleteMe() if the
\* feature exists (0 stands for None)
CleanupCalls(feature) == IF feature # 0 THEN <<"delete_feature">> ELSE <<>>

\* a guardrail chain that looks at the edge count before the face count
GuardrailErrorEdgesFirst(cmd, timing_ms, face_delta, edge_delta, body_delta) ==
    IF timing_ms > MaxApplyMs(cmd) THEN "Apply exceeded MAX_APPLY_MS"
    ELSE IF edge_delta > MaxEdgeDelta(cmd) THEN "edge_count_delta exceeded MAX_EDGE_DELTA"
    ELSE IF face_delta > MaxFaceDelta(cmd) THEN "face_count_delta exceeded MAX_FACE_DELTA"
    ELSE IF body_delta > MaxBodyDelta(cmd) THEN "body_count_delta exceeded MAX_BODY_DELTA"
    ELSE ""

\* a guardrail chain that is breached by a value at its limit
GuardrailErrorAtLimit(cmd, timing_ms, face_delta, edge_delta, body_delta) ==
    IF timing_ms >= MaxApplyMs(cmd) THEN "Apply exceeded MAX_APPLY_MS"
    ELSE IF face_delta >= MaxFaceDelta(cmd) THEN "face_count_delta exceeded MAX_FACE_DELTA"
    ELSE IF edge_delta >= MaxEdgeDelta(cmd) THEN "edge_count_delta exceeded MAX_EDGE_DELTA"
    ELSE IF body_delta >= MaxBodyDelta(cmd) THEN "body_count_delta exceeded MAX_BODY_DELTA"
    ELSE ""

\* a guardrail chain that compares the magnitude of the count deltas
GuardrailErrorByMagnitude(cmd, timing_ms, face_delta, edge_delta, body_delta) ==
    LET Abs(n) == IF n < 0 THEN 0 - n ELSE n
    IN  IF timing_ms > MaxApplyMs(cmd) THEN "Apply exceeded MAX_APPLY_MS"
        ELSE IF Abs(face_delta) > MaxFaceDelta(cmd)
        THEN "face_count_delta exceeded MAX_FACE_DELTA"
        ELSE IF Abs(edge_delta) > MaxEdgeDelta(cmd)
        THEN "edge_count_delta exceeded MAX_EDGE_DELTA"
        ELSE IF Abs(body_delta) > MaxBodyDelta(cmd)
        THEN "body_count_delta exceeded MAX_BODY_DELTA"
        ELSE ""

\* the guardrail if/elif chain
GuardrailError(cmd, timing_ms, face_delta, edge_delta, body_delta) ==
    IF timing_ms > MaxApplyMs(cmd) THEN "Apply exceeded MAX_APPLY_MS"
    ELSE IF face_delta > MaxFaceDelta(cmd) THEN "face_count_delta exceeded MAX_FACE_DELTA"
    ELSE IF edge_delta > MaxEdgeDelta(cmd) THEN "edge_count_delta exceeded MAX_EDGE_DELTA"
    ELSE IF body_delta > MaxBodyDelta(cmd) THEN "body_count_delta exceeded MAX_BODY_DELTA"
    ELSE ""

\* a rollback that reports its own failure in place of the original error
RollbackResponseSurfacingFailure(error, plan, deleted, recomputed) ==
    IF deleted /\ recomputed THEN Failed(error, plan) ELSE Failed("Rollback failed", plan)

\* the return that follows the rollback's try/except: the same whether
\* feature.deleteMe() or design.computeAll() raised or not
RollbackResponse(error, plan, deleted, recomputed) == Failed(error, plan)

\* a handler that never diffs the body keys
DisambiguatesNothing(r) == FALSE

\* only extrude_feature diffs the body keys after a new_body operation
Disambiguates(r) == r.cmd = "extrude_feature" /\ r.variant = "new_body"

\* new_candidates of extrude_feature
NewCandidates(before_bodies, d) ==
    {b \in ListVisibleBodies(d) : BodyKey(b) \notin {BodyKey(c) : c \in before_bodies}}

(***************************************************************************)
(* The request dispatcher _handle_request.  A request is any JSON value    *)
(* the server decoded:                                                     *)
(*   kind    "object", or the kind of a value that is no object            *)
(*   has_id  whether the object has an "id" key, and id its value          *)
(*   cmd     the value of "cmd": a command name, NoCmd when the key is     *)
(*           absent, UnhashableCmd when the value is a list or an object   *)
(* A response is the dict the dispatcher builds: ok, the id when one was   *)
(* copied, the value of the "error" key (None when the key is absent or    *)
(* null), and which payload key it carries.                                *)
(***************************************************************************)
NoCmd == "<absent>"

UnhashableCmd == "<list>"

UnknownCmd == "no_such_command"

\* COMMAND of the command modules that the registry holds beside the
\* mutating commands (a selection of the read-only and sketch commands)
OtherCommands == {"status", "list_bodies", "measure_bbox", "delete_feature"}

\* a registry that has an entry for every name
RegisteredCommandsAndUnknown == Commands \cup OtherCommands \cup {UnknownCmd, NoCmd}

\* the keys of _command_registry once the modules are loaded
RegisteredCommands == Commands \cup OtherCommands

RpcCmds == {NoCmd, UnhashableCmd, UnknownCmd, "help", "reload_commands"} \cup RegisteredCommands

RpcIds == {1, 2}

RpcRequests ==
    {[kind |-> k, has_id |-> FALSE, id |-> 0, cmd |-> NoCmd] :
        k \in {"null", "number", "string", "array"}}
    \cup {[kind |-> "object", has_id |-> FALSE, id |-> 0, cmd |-> c] : c \in RpcCmds}
    \cup {[kind |-> "object", has_id |-> TRUE, id |-> i, cmd |-> c] : i \in RpcIds, c \in RpcCmds}

NoRpcRequest == [kind |-> "null", has_id |-> FALSE, id |-> 0, cmd |-> NoCmd]

\* isinstance(request, dict) and "id" in request
HasId(request) == request.kind = "object" /\ request.has_id

\* str(cmd) inside the f-string of the unknown-command error
CmdText(cmd) == IF cmd = NoCmd THEN "None" ELSE cmd

UnknownCommandError(cmd) == "Unknown command: " \o CmdText(cmd)

\* str(exc) of an exception: a message, or nothing
ExceptionTexts == {"", "RuntimeError: 3 : invalid argument"}

\* traceback.format_exc() inside an except block
Traceback(text) == "Traceback (most recent call last): " \o text

\* a dispatcher whose try block opens after the read of "cmd"
InsideTryAfterCmd(step) == step \in {"lookup", "design", "handle"}

\* the steps of _handle_request that the try block encloses
InsideTry(step) == step \in {"cmd", "lookup", "design", "handle"}

\* {"ok": False} with the id copied over
NewRpcResponse(request) ==
    [ok |-> FALSE, id |-> IF HasId(request) THEN Some(request.id) ELSE None,
     error |-> None, payload |-> "none"]

\* error strings of the ok=false returns of a command's handle(): those of
\* its field checks, of its body resolution, of its except block and of its
\* guardrails
HandlerErrors(cmd) ==
    CASE cmd \in Commands ->
           UNION {SeqRange(FieldChecks(cmd, v, by)) \ {"BODY"} :
                     v \in Variants(cmd), by \in TargetModes(cmd)}
           \cup {"Body not found", "No visible solid body found.",
                 "Multiple visible bodies; specify body_name."}
           \cup {ApplyFailedError(cmd, v) : v \in Variants(cmd)}
           \cup {GuardrailError(cmd, MaxApplyMs(cmd) + 1, 0, 0, 0),
                 GuardrailError(cmd, 0, MaxFaceDelta(cmd) + 1, 0, 0),
                 GuardrailError(cmd, 0, 0, MaxEdgeDelta(cmd) + 1, 0),
                 GuardrailError(cmd, 0, 0, 0, MaxBodyDelta(cmd) + 1)}
      [] cmd = "status" -> {"No active design.", "No root component."}
      [] cmd = "measure_bbox" -> {"No visible solid body found."}
      [] cmd = "delete_feature" ->
           {"No active design.", "feature_id is required", "feature_id not found: f1"}
           \cup {"Delete failed: " \o text : text \in ExceptionTexts}
      [] OTHER -> {}

\* what a command's handle() can do: return a dict with ok=true (its error
\* key null or absent), return a dict with ok=false and an error, or raise
HandlerResults(cmd) ==
    {[does |-> "returns", ok |-> TRUE, error |-> None]}
    \cup {[does |-> "returns", ok |-> FALSE, error |-> Some(e)] : e \in HandlerErrors(cmd)}
    \cup {[does |-> "raises", ok |-> FALSE, error |-> Some(text)] : text \in ExceptionTexts}

InitRpc ==
    /\ rpcRequest = NoRpcRequest
    /\ rpcPc = "idle"
    /\ rpcResponse = NewRpcResponse(NoRpcRequest)
    /\ commandsLoaded = FALSE

(***************************************************************************)
(* The socket server and the custom-event handler.  A ticket numbers the   *)
(* connections in the order the server accepted them; conn[t] is what      *)
(* belongs to connection t: the decoded request, its done_event, its       *)
(* response_holder (held, with the ticket whose request the held response  *)
(* answers) and the response sent on the connection.                       *)
(***************************************************************************)

\* the connections a behaviour accepts
MaxRequests == 3

\* the requests the clients send: a JSON array, a built-in command and a
\* registered command
SrvRequests ==
    {[kind |-> "array", has_id |-> FALSE, id |-> 0, cmd |-> NoCmd],
     [kind |-> "object", has_id |-> TRUE, id |-> 1, cmd |-> "help"],
     [kind |-> "object", has_id |-> TRUE, id |-> 2, cmd |-> "list_bodies"]}

\* {"ok": False, "error": "Timeout waiting for Fusion API"}
TimeoutResponse ==
    [ok |-> FALSE, id |-> None, error |-> Some("Timeout waiting for Fusion API"),
     payload |-> "none"]

\* the default of response_holder.get("response", ...)
NoResponseHeld ==
    [ok |-> FALSE, id |-> None, error |-> Some("No response"), payload |-> "none"]

\* bytes that json.loads cannot decode
UndecodableRequest == [kind |-> "undecodable", has_id |-> FALSE, id |-> 0, cmd |-> NoCmd]

\* {"ok": False, "error": _format_exception()} of the server loop
DecodeErrorResponse ==
    [ok |-> FALSE, id |-> None,
     error |-> Some(Traceback("json.decoder.JSONDecodeError: Expecting value")),
     payload |-> "none"]

\* a holder shared by the connections, which keeps the first response stored
FirstHeldResponse(c, t) ==
    LET stored == {i \in 1..Len(c) : c[i].held # None}
    IN  IF stored = {} THEN Some(NoResponseHeld)
        ELSE c[CHOOSE i \in stored : \A j \in stored : i <= j].held

\* response_holder.get("response", {"ok": False, "error": "No response"})
HeldResponse(c, t) == IF c[t].held = None THEN Some(NoResponseHeld) ELSE c[t].held

\* done_event = threading.Event(); response_holder = {}
NewConn(request) ==
    [request |-> request, done |-> FALSE, held |-> None, of |-> 0, sent |-> None]

\* the server thread between connections
ServerIdle == [pc |-> "accept", ticket |-> 0, response |-> None]

\* the host's main thread outside notify
HostIdle == [events |-> 0, running |-> FALSE, ticket |-> 0]

InitSrv ==
    /\ srv = ServerIdle
    /\ queue = <<>>
    /\ conn = <<>>
    /\ mainThread = HostIdle
    /\ handled = <<>>

(***************************************************************************)
(* Python floats.  A float is an IEEE-754 double: a significand of 53      *)
(* binary digits times a power of two, every operation rounded to the      *)
(* nearest double, ties to the even significand.  The significand is kept  *)
(* as two integers, hi * 2^26 + lo with 2^26 <= hi < 2^27 and lo < 2^26.   *)
(***************************************************************************)

LoRadix == 2^26

HiRadix == 2^27

\* the number of binary digits of a positive integer
BitLength(n) == CHOOSE len \in 1..31 : 2^(len - 1) <= n /\ (len = 31 \/ n < 2^len)

\* float(n) of a positive integer below 2^27
FromInt(n) == [hi |-> n * 2^(27 - BitLength(n)), lo |-> 0, exp |-> BitLength(n) - 53]

\* the significand after the next one
NextUp(x) ==
    IF x.lo + 1 < LoRadix THEN [x EXCEPT !.lo = x.lo + 1]
    ELSE IF x.hi + 1 < HiRadix THEN [x EXCEPT !.hi = x.hi + 1, !.lo = 0]
    ELSE [hi |-> LoRadix, lo |-> 0, exp |-> x.exp + 1]

\* x rounded to a double, where (dropped + a fraction when sticky) / scale
\* of its last digit was cut off
Rounded(x, dropped, scale, sticky) ==
    IF \/ 2 * dropped > scale
       \/ 2 * dropped = scale /\ (sticky \/ x.lo % 2 = 1)
    THEN NextUp(x)
    ELSE x

\* x / float(divisor) for a divisor from 2 to 15 that is no power of two:
\* long division of the significand times 2^6, in three pieces
Divided(x, divisor) ==
    LET q1 == x.hi \div divisor
        r1 == x.hi % divisor
        d2 == r1 * 2^16 + (x.lo \div 2^10)
        q2 == d2 \div divisor
        r2 == d2 % divisor
        d3 == r2 * 2^16 + (x.lo % 2^10) * 2^6
        q3 == d3 \div divisor
        r3 == d3 % divisor
        \* the quotient q1 * 2^32 + q2 * 2^16 + q3 has 53 + cut digits
        cut == BitLength(q1) - 21
        scale == 2^cut
    IN  Rounded([hi |-> q1 * 2^(6 - cut) + (q2 \div (2^10 * scale)),
                 lo |-> (q2 % (2^10 * scale)) * 2^(16 - cut) + (q3 \div scale),
                 exp |-> x.exp - 6 + cut],
                q3 % scale, scale, r3 # 0)

\* x * float(k) for a k from 2 to 15 that is no power of two
Multiplied(x, k) ==
    LET low == x.lo * k
        high == x.hi * k + (low \div LoRadix)
        \* the product high * 2^26 + (low % 2^26) has 53 + cut digits
        cut == BitLength(high) - 27
        scale == 2^cut
    IN  Rounded([hi |-> high \div scale,
                 lo |-> (high % scale) * 2^(26 - cut) + ((low % LoRadix) \div scale),
                 exp |-> x.exp + cut],
                (low % LoRadix) % scale, scale, FALSE)

\* the float of the JSON number n/10: the double nearest to it
Tenths(n) == Divided(FromInt(n), 10)

(***************************************************************************)
(* Unit conversion.  The host's internal unit of length is the centimetre; *)
(* its unit manager converts by the factor ten.                            *)
(***************************************************************************)

\* units_mgr.convert(value, "mm", units_mgr.internalUnits)
HostToInternal(x) == Divided(x, 10)

\* units_mgr.convert(value, units_mgr.internalUnits, "mm")
HostToMm(x) == Multiplied(x, 10)

\* a conversion to internal units whose fallback returns the value as it is
MmToInternalUnscaled(x, path) == IF path = "manager" THEN HostToInternal(x) ELSE x

\* _mm_to_internal: the value itself without a unit manager, the manager's
\* conversion, or value_mm / 10.0 when the manager raises
MmToInternal(x, path) ==
    CASE path = "no_manager" -> x
      [] path = "manager" -> HostToInternal(x)
      [] OTHER -> Divided(x, 10)

\* _convert_mm with floats: the manager's conversion, or value * 10.0 when
\* the manager raises (as it does when there is none)
ConvertMmFloat(x, path) == IF path = "manager" THEN HostToMm(x) ELSE Multiplied(x, 10)

\* the lengths the model converts: n/10 mm for n up to MaxTenths, and
\* 0.1, 1, 58 and 1000 mm
MaxTenths == 60

RoundTripTenths == {1, 10, 580, 10000}

NoConversion == [pc |-> "idle", tenths |-> 0, forward |-> "", back |-> "",
                 mm |-> FromInt(1), internal |-> FromInt(1), out |-> FromInt(1)]

(***************************************************************************)
(* The vision client.                                                      *)
(***************************************************************************)

\* the largest max_attempts a call is made with
MaxAttempts == 4

\* the statuses the endpoint answers an attempt with, beside success
HttpErrorCodes == {429, 500, 503}

\* what urlopen does with one attempt: a response, an HTTPError with its
\* status and Retry-After header, or a URLError
AttemptOutcomes ==
    {[kind |-> "ok", code |-> 200, retry_after |-> None],
     [kind |-> "url_error", code |-> 0, retry_after |-> None]}
      \cup [kind : {"http_error"}, code : HttpErrorCodes, retry_after : {None, Some(0), Some(7)}]

\* a retry condition that retries whatever the status
RetriesAnyStatus(code, attempt, max_attempts) == attempt < max_attempts

\* exc.code == 429 and attempt < max_attempts
Retries(code, attempt, max_attempts) == code = 429 /\ attempt < max_attempts

\* retry_after if retry_after is not None else 2 ** (attempt - 1)
SleepFor(retry_after, attempt) ==
    IF retry_after # None THEN retry_after[1] ELSE 2^(attempt - 1)

NoVisionCall ==
    [pc |-> "idle", max_attempts |-> 0, attempt |-> 0, requests |-> 0, in_flight |-> 0,
     outcomes |-> <<>>, slept |-> <<>>, error |-> ""]

(***************************************************************************)
(* The agent runner's planner loop (agent_runner.py).  agent is one run of *)
(* run_loop: the Planner's fields (state, stuck_count, last_progress,      *)
(* pending: whether pending_action holds the edit action), the iteration   *)
(* of the for loop, the action the iteration decided on, and what the run  *)
(* did so far: the pre-edit snapshots it saved and the intents of the      *)
(* actions it dispatched to their tools.                                   *)
(***************************************************************************)

\* the largest max_steps a run is started with
MaxLoopSteps == 10

\* planner.stuck_count at which run_loop puts the planner into RECOVER
StuckLimit == 8

\* the contents of observation["task_state"]["progress"]
Progresses == {"none", "some"}

NoAction == [intent |-> "none", from_pending |-> FALSE]

NoRun ==
    [pc |-> "idle", max_steps |-> 0, step |-> 0, state |-> "BOOTSTRAP", pending |-> FALSE,
     stuck_count |-> 0, last_progress |-> None, confident |-> FALSE, action |-> NoAction,
     snapshots |-> 0, dispatched |-> {}]

\* Planner.update_progress: the stuck_count after an observation
UpdateProgress(last_progress, stuck_count, progress) ==
    IF last_progress = None THEN stuck_count
    ELSE IF Some(progress) # last_progress THEN 0
    ELSE stuck_count + 1

\* the state after the state that decide_action finds
NextPlannerState(state) ==
    CASE state = "BOOTSTRAP" -> "LOCATE"
      [] state = "LOCATE" -> "MEASURE_BASELINE"
      [] state = "MEASURE_BASELINE" -> "EDIT"
      [] state = "EDIT" -> "VERIFY"
      [] state = "VERIFY" -> "DONE"
      [] OTHER -> state

\* the intent of the action that decide_action returns in a state, "none"
\* for None
IntentOf(state) ==
    CASE state = "BOOTSTRAP" -> "escape"
      [] state = "LOCATE" -> "navigate"
      [] state = "MEASURE_BASELINE" -> "measure"
      [] state = "EDIT" -> "edit"
      [] state = "VERIFY" -> "verify"
      [] OTHER -> "none"

\* Planner.decide_action: the pending action first, then the wait of a low
\* confidence, then the step of the state machine
DecideAction(run) ==
    IF run.pending
    THEN [run EXCEPT !.pending = FALSE,
                     !.action = [intent |-> "edit", from_pending |-> TRUE]]
    ELSE IF ~run.confident
    THEN [run EXCEPT !.action = [intent |-> "wait", from_pending |-> FALSE]]
    ELSE [run EXCEPT !.state = NextPlannerState(run.state),
                     !.action = [intent |-> IntentOf(run.state), from_pending |-> FALSE]]

InitTools ==
    /\ conv = NoConversion
    /\ vision = NoVisionCall
    /\ agent = NoRun

(***************************************************************************)
(* The handlers, step by step.  pc is the step the handler is at:          *)
(*   "idle" -> "plan" -> ("idle" | "apply") -> ("idle" | "compute")        *)
(*          -> ("idle" | "check") -> ("rollback" | "disambiguate" |        *)
(*   "commit") -> "idle".                                                  *)
(* trace lists, for the request being handled, the host calls the handler  *)
(* issued and the read-only steps it took, in order.                       *)
(***************************************************************************)
InitCmd(bodies) ==
    /\ doc = InitialDoc(bodies)
    /\ doc0 = doc
    /\ req = NoRequest
    /\ pc = "idle"
    /\ frame = NoFrame
    /\ trace = <<>>
    /\ resp = NoResponse
    /\ prev = NoPrev
    /\ applies = 0

Init ==
    /\ pool = <<>>
    /\ selector = [kind |-> "face", str |-> "largest_planar", point |-> None]
    /\ enumOk = TRUE
    /\ result = Pending
    /\ \E bodies \in {{}, {1}, {1, 2}} : InitCmd(bodies)
    /\ InitRpc
    /\ InitSrv
    /\ InitTools

\* request r repeats request q, as a preview or as an apply
SameFields(r, q) == [r EXCEPT !.preview = TRUE] = [q EXCEPT !.preview = TRUE]

\* The server hands a request to its handler.  The first request of a
\* session is any request; the client then repeats it, with either value
\* of the preview flag.
Receive ==
    /\ pc = "idle"
    /\ \E r \in (IF req = NoRequest THEN Requests
                 ELSE {q \in {[req EXCEPT !.preview = p] : p \in BOOLEAN} : SameFields(q, req)}) :
         /\ ~r.preview => applies < MaxApplies
         /\ r.by = "axis_line_mm" => doc.axes < MaxAxes
         /\ req' = r
         /\ applies' = IF r.preview THEN applies ELSE applies + 1
    /\ prev' = IF req = NoRequest THEN NoPrev ELSE [req |-> req, plan |-> resp.plan, doc |-> doc0]
    /\ doc0' = doc
    /\ pc' = "plan"
    /\ trace' = <<>>
    /\ resp' = NoResponse
    /\ frame' = NoFrame
    /\ UNCHANGED doc
    /\ UNCHANGED selVars
    /\ UNCHANGED rpcVars
    /\ UNCHANGED srvVars
    /\ UNCHANGED toolVars

\* PLAN: validation, resolution of the target, the plan dictionary, and the
\* return of a preview.  revolve_feature builds its construction axis here.
Plan ==
    /\ pc = "plan"
    /\ LET error == Validate(req, doc)
       IN  IF error # ""
           THEN /\ resp' = Rejected(error)
                /\ pc' = "idle"
                /\ UNCHANGED <<doc, frame, trace>>
           ELSE \E axis_added \in (IF req.by = "axis_line_mm" THEN BOOLEAN ELSE {FALSE}) :
                  /\ doc' = IF axis_added THEN [doc EXCEPT !.axes = @ + 1] ELSE doc
                  /\ trace' = (IF req.by = "axis_line_mm" THEN <<"create_axis">> ELSE <<>>)
                                \o (IF req.preview /\ req.cmd = "extrude_feature"
                                    THEN <<"measure">> ELSE <<>>)
                  /\ IF req.by = "axis_line_mm" /\ ~axis_added
                     THEN /\ resp' = Rejected("Failed to create axis from axis_line_mm")
                          /\ pc' = "idle"
                          /\ UNCHANGED frame
                     ELSE IF req.preview
                     THEN /\ resp' = Previewed(req, doc')
                          /\ pc' = "idle"
                          /\ UNCHANGED frame
                     ELSE /\ frame' = [NoFrame EXCEPT !.plan = Some(PlanOf(req, doc')),
                                                      !.body = IF ResolvesBody(req)
                                                               THEN ResolveBody(doc, req.body_name)
                                                               ELSE 0]
                          /\ pc' = "apply"
                          /\ UNCHANGED resp
    /\ UNCHANGED <<doc0, req, prev, applies>>
    /\ UNCHANGED selVars
    /\ UNCHANGED rpcVars
    /\ UNCHANGED srvVars
    /\ UNCHANGED toolVars

\* APPLY, up to the host's features.add: the before snapshot, then the host
\* operation, which raises or adds the feature.  hole_feature first adds a
\* sketch, which stays in the document.
HostApply ==
    /\ pc = "apply"
    /\ LET before == [frame EXCEPT !.before_bodies = ListVisibleBodies(doc),
                                   !.before_faces = TotalCounts(doc).faces,
                                   !.before_edges = TotalCounts(doc).edges]
           measured == IF req.cmd = "extrude_feature" THEN <<"snapshot", "measure">>
                       ELSE <<"snapshot">>
       IN  \/ \E sketch_added \in (IF req.cmd = "hole_feature" THEN BOOLEAN ELSE {FALSE}) :
                /\ doc' = IF sketch_added THEN [doc EXCEPT !.sketches = @ + 1] ELSE doc
                /\ trace' = trace \o measured
                              \o (IF req.cmd = "hole_feature" THEN <<"create_sketch">> ELSE <<>>)
                              \o (IF req.cmd = "hole_feature" /\ ~sketch_added THEN <<>>
                                  ELSE <<"create_feature">>)
                              \o CleanupCalls(frame.feature)
                /\ resp' = Failed(ApplyFailedError(req.cmd, req.variant), frame.plan[1])
                /\ frame' = NoFrame
                /\ pc' = "idle"
           \/ \E effect \in HostEffects(req.cmd, doc) :
                /\ doc' = [doc EXCEPT !.features =
                                        Append(@, Feature(doc, effect[1], effect[2], effect[3])),
                                      !.sketches = IF req.cmd = "hole_feature" THEN @ + 1 ELSE @]
                /\ trace' = trace \o measured
                              \o (IF req.cmd = "hole_feature" THEN <<"create_sketch">> ELSE <<>>)
                              \o <<"create_feature">>
                /\ \E reading \in (IF req.cmd = "extrude_feature" THEN BodyReadings
                                    ELSE {CHOOSE r \in BodyReadings : TRUE}) :
                     frame' = [before EXCEPT !.feature = Len(doc.features) + 1,
                                             !.measure_before =
                                                IF req.cmd = "extrude_feature"
                                                THEN Some(BodyMeasurement(reading)) ELSE None]
                /\ pc' = "compute"
                /\ UNCHANGED resp
    /\ UNCHANGED <<doc0, req, prev, applies>>
    /\ UNCHANGED selVars
    /\ UNCHANGED rpcVars
    /\ UNCHANGED srvVars
    /\ UNCHANGED toolVars

\* APPLY, after features.add: design.computeAll(), then the clock is read
\* for timing_ms.  Three handlers skip the recompute when the request says
\* compute=false.  A raise is swallowed, except in extrude_feature, which
\* deletes the feature and fails the apply.
Compute ==
    /\ pc = "compute"
    /\ \E computed \in (IF ReadsComputeFlag(req.cmd) /\ ~req.compute THEN {FALSE} ELSE BOOLEAN),
          deleted \in BOOLEAN, ms \in ElapsedMs(req.cmd) :
         LET attempted == ~(ReadsComputeFlag(req.cmd) /\ ~req.compute)
         IN  IF attempted /\ ~computed /\ req.cmd = "extrude_feature"
             THEN /\ ms = MaxApplyMs(req.cmd)
                  /\ doc' = IF deleted THEN WithoutLastFeature(doc) ELSE doc
                  /\ trace' = Append(trace, "compute") \o CleanupCalls(frame.feature)
                  /\ resp' = Failed(ApplyFailedError(req.cmd, req.variant), frame.plan[1])
                  /\ frame' = NoFrame
                  /\ pc' = "idle"
             ELSE /\ deleted
                  /\ frame' = [frame EXCEPT !.compute_ran = computed, !.timing_ms = ms]
                  /\ trace' = IF attempted THEN Append(trace, "compute") ELSE trace
                  /\ pc' = "check"
                  /\ UNCHANGED <<doc, resp>>
    /\ UNCHANGED <<doc0, req, prev, applies>>
    /\ UNCHANGED selVars
    /\ UNCHANGED rpcVars
    /\ UNCHANGED srvVars
    /\ UNCHANGED toolVars

\* GUARDRAIL_CHECK: the after snapshot and the if/elif chain.  hole_feature
\* reads the clock again here instead of using timing_ms; elapsed_ms is the
\* time that the chain compares with MAX_APPLY_MS.
GuardrailCheck ==
    /\ pc = "check"
    /\ \E lag \in (IF req.cmd = "hole_feature" THEN {0, 1} ELSE {0}) :
         LET after_visible == ListVisibleBodies(doc)
             after_counts == TotalCounts(doc)
             error == GuardrailError(req.cmd, frame.timing_ms + lag,
                                     after_counts.faces - frame.before_faces,
                                     after_counts.edges - frame.before_edges,
                                     Cardinality(after_visible) - Cardinality(frame.before_bodies))
         IN  /\ frame' = [frame EXCEPT !.error = error, !.elapsed_ms = frame.timing_ms + lag]
             /\ pc' = IF error # "" THEN "rollback"
                      ELSE IF Disambiguates(req) THEN "disambiguate"
                      ELSE "commit"
    /\ trace' = trace \o <<"snapshot", "guardrail_check">>
    /\ UNCHANGED <<doc, doc0, req, resp, prev, applies>>
    /\ UNCHANGED selVars
    /\ UNCHANGED rpcVars
    /\ UNCHANGED srvVars
    /\ UNCHANGED toolVars

\* DISAMBIGUATE_NEW_BODY of extrude_feature
Disambiguate ==
    /\ pc = "disambiguate"
    /\ LET new_candidates == NewCandidates(frame.before_bodies, doc)
       IN  IF Cardinality(new_candidates) = 1
           THEN /\ frame' = [frame EXCEPT !.new_body = CHOOSE b \in new_candidates : TRUE]
                /\ pc' = "commit"
           ELSE /\ frame' = [frame EXCEPT !.error =
                               IF Cardinality(new_candidates) > 1
                               THEN "Multiple bodies created; guardrail failure."
                               ELSE "No new body created."]
                /\ pc' = "rollback"
    /\ trace' = Append(trace, "disambiguate")
    /\ UNCHANGED <<doc, doc0, req, resp, prev, applies>>
    /\ UNCHANGED selVars
    /\ UNCHANGED rpcVars
    /\ UNCHANGED srvVars
    /\ UNCHANGED toolVars

\* ROLLBACK: feature.deleteMe(), then design.computeAll() unless the delete
\* raised (or, in the two extrudes, the request said compute=false); what
\* either call raises is swallowed.  deleted and recomputed say whether the
\* calls went through.
Rollback ==
    /\ pc = "rollback"
    /\ \E deleted \in BOOLEAN, recomputed \in BOOLEAN :
         /\ doc' = IF deleted THEN WithoutLastFeature(doc) ELSE doc
         /\ trace' = trace \o <<"delete_feature">>
                       \o (IF deleted /\ (RollbackHonoursComputeFlag(req.cmd) => req.compute)
                           THEN <<"compute">> ELSE <<>>)
         /\ resp' = RollbackResponse(frame.error, frame.plan[1], deleted, recomputed)
    /\ frame' = NoFrame
    /\ pc' = "idle"
    /\ UNCHANGED <<doc0, req, prev, applies>>
    /\ UNCHANGED selVars
    /\ UNCHANGED rpcVars
    /\ UNCHANGED srvVars
    /\ UNCHANGED toolVars

\* MEASURE_AFTER and VERIFY (extrude_feature only), then the ok response.
\* of_body is what the host lets the handler read of the source body, of_new
\* of the new body when there is one; measure_after is the measurement of
\* the new body then, and its source_body that of the source body.
Commit ==
    /\ pc = "commit"
    /\ trace' = trace \o (IF req.cmd = "extrude_feature" THEN <<"measure", "verify">> ELSE <<>>)
    /\ IF req.cmd # "extrude_feature"
       THEN resp' = Committed(req, frame.plan[1], frame.compute_ran, frame.new_body, frame.body)
       ELSE \E of_body \in BodyReadings :
              \E of_new \in (IF frame.new_body # 0 THEN BodyReadings ELSE {of_body}) :
                LET after == BodyMeasurement(of_new)
                IN  resp' = [Committed(req, frame.plan[1], frame.compute_ran,
                                       frame.new_body, frame.body)
                             EXCEPT !.measure_before = frame.measure_before,
                                    !.measure_after = Some(after),
                                    !.verify = Some(Verify(req.variant, frame.measure_before[1],
                                                           after, frame.new_body # 0))]
    /\ frame' = NoFrame
    /\ pc' = "idle"
    /\ UNCHANGED <<doc, doc0, req, prev, applies>>
    /\ UNCHANGED selVars
    /\ UNCHANGED rpcVars
    /\ UNCHANGED srvVars
    /\ UNCHANGED toolVars

Next ==
    \/ Receive
    \/ Plan
    \/ HostApply
    \/ Compute
    \/ GuardrailCheck
    \/ Disambiguate
    \/ Rollback
    \/ Commit

Spec == Init /\ [][Next]_vars

(***************************************************************************)
(* The selector resolvers as a system: the host presents entities, permutes*)
(* them, and a command resolves the selector against them.                 *)
(***************************************************************************)
InitSel ==
    /\ pool = <<>>
    /\ \E kind \in {"face", "edge", "vertex"} :
         \E str \in SelectorStrings(kind) :
           \E pt \in (IF str = "closest_to_point" THEN RequestPoints ELSE {None}) :
             selector = [kind |-> kind, str |-> str, point |-> pt]
    /\ enumOk \in BOOLEAN
    /\ selector.kind = "face" => enumOk
    /\ result = Pending
    /\ InitCmd({1})
    /\ InitRpc
    /\ InitSrv
    /\ InitTools

\* the host enumerates one more entity, behind those already enumerated
HostPresent ==
    /\ Len(pool) < MaxPool
    /\ Parsed.kind # "none"
    /\ \E s \in EntityShapes(Parsed) :
         \E tok \in {None, Some(Len(pool) + 1)} :
           pool' = Append(pool, Entity(Len(pool) + 1, tok, s))
    /\ result' = Pending
    /\ UNCHANGED <<selector, enumOk>>
    /\ UNCHANGED cmdVars
    /\ UNCHANGED rpcVars
    /\ UNCHANGED srvVars
    /\ UNCHANGED toolVars

\* the host enumerates the same entities in another order
HostReorder ==
    /\ \E i \in 1..(Len(pool) - 1) :
         pool' = [pool EXCEPT ![i] = pool[i + 1], ![i + 1] = pool[i]]
    /\ result' = Pending
    /\ UNCHANGED <<selector, enumOk>>
    /\ UNCHANGED cmdVars
    /\ UNCHANGED rpcVars
    /\ UNCHANGED srvVars
    /\ UNCHANGED toolVars

\* a command parses the selector string and calls the resolver
Resolve ==
    /\ result.status = "pending"
    /\ result' =
         IF Parsed.kind = "none" THEN [status |-> "invalid_selector", winner |-> 0, n |-> 0]
         ELSE LET r == Select(pool, Parsed, enumOk)
              IN  [status |-> IF r.winner = 0 THEN "not_found" ELSE "resolved",
                   winner |-> r.winner, n |-> r.n]
    /\ UNCHANGED <<pool, selector, enumOk>>
    /\ UNCHANGED cmdVars
    /\ UNCHANGED rpcVars
    /\ UNCHANGED srvVars
    /\ UNCHANGED toolVars

NextSel == HostPresent \/ HostReorder \/ Resolve

SpecSel == InitSel /\ [][NextSel]_vars

(***************************************************************************)
(* _handle_request, step by step.  rpcPc is the step the dispatcher is at: *)
(*   "idle" -> "cmd" -> "dispatch" -> "lookup" -> "design" -> "handle"     *)
(* and from any of them to "returned" (the function returned rpcResponse   *)
(* to its caller) or "raised" (an exception left the function).            *)
(***************************************************************************)

\* response.update({"ok": ..., "error": ...}) and the payload key it adds
Updated(response, ok, error, payload) ==
    [response EXCEPT !.ok = ok, !.error = error, !.payload = payload]

\* an exception at a step: the except block answers it when the step is
\* inside the try, else it leaves the function
Raised(step, text) ==
    IF InsideTry(step)
    THEN /\ rpcResponse' = Updated(rpcResponse, FALSE, Some(Traceback(text)), "none")
         /\ rpcPc' = "returned"
    ELSE /\ rpcPc' = "raised"
         /\ UNCHANGED rpcResponse

\* the caller passes a decoded request; response = {"ok": False} and the id
RpcReceive ==
    /\ rpcPc = "idle"
    /\ \E v \in RpcRequests :
         /\ rpcRequest' = v
         /\ rpcResponse' = NewRpcResponse(v)
    /\ rpcPc' = "cmd"
    /\ UNCHANGED commandsLoaded
    /\ UNCHANGED <<selVars, cmdVars>>
    /\ UNCHANGED srvVars
    /\ UNCHANGED toolVars

\* cmd = request.get("cmd"): a value that is no dict has no get
RpcReadCmd ==
    /\ rpcPc = "cmd"
    /\ IF rpcRequest.kind # "object"
       THEN Raised("cmd", "AttributeError: object has no attribute 'get'")
       ELSE rpcPc' = "dispatch" /\ UNCHANGED rpcResponse
    /\ UNCHANGED <<rpcRequest, commandsLoaded>>
    /\ UNCHANGED <<selVars, cmdVars>>
    /\ UNCHANGED srvVars
    /\ UNCHANGED toolVars

\* the two built-in commands, else _ensure_commands_loaded()
RpcDispatch ==
    /\ rpcPc = "dispatch"
    /\ IF rpcRequest.cmd \in {"help", "reload_commands"}
       THEN /\ rpcResponse' = Updated(rpcResponse, TRUE, None, "commands")
            /\ rpcPc' = "returned"
       ELSE /\ rpcPc' = "lookup"
            /\ UNCHANGED rpcResponse
    /\ commandsLoaded' = TRUE
    /\ UNCHANGED rpcRequest
    /\ UNCHANGED <<selVars, cmdVars>>
    /\ UNCHANGED srvVars
    /\ UNCHANGED toolVars

\* handler_entry = _command_registry.get(cmd): a list or a dict cannot be
\* hashed; a cmd without an entry is unknown
RpcLookup ==
    /\ rpcPc = "lookup"
    /\ IF rpcRequest.cmd = UnhashableCmd
       THEN Raised("lookup", "TypeError: unhashable type: 'list'")
       ELSE IF rpcRequest.cmd \notin RegisteredCommands
       THEN /\ rpcResponse' =
                 Updated(rpcResponse, FALSE, Some(UnknownCommandError(rpcRequest.cmd)), "none")
            /\ rpcPc' = "returned"
       ELSE /\ rpcPc' = "design"
            /\ UNCHANGED rpcResponse
    /\ UNCHANGED <<rpcRequest, commandsLoaded>>
    /\ UNCHANGED <<selVars, cmdVars>>
    /\ UNCHANGED srvVars
    /\ UNCHANGED toolVars

\* design = Design.cast(_app.activeProduct); every command module sets
\* REQUIRES_DESIGN = True; the host call may raise
RpcDesign ==
    /\ rpcPc = "design"
    /\ \E host \in {"design", "no_design", "raises"} :
         CASE host = "raises" -> \E text \in ExceptionTexts : Raised("design", text)
           [] host = "no_design" ->
                /\ rpcResponse' =
                     Updated(rpcResponse, FALSE, Some("No active Fusion design."), "none")
                /\ rpcPc' = "returned"
           [] OTHER -> rpcPc' = "handle" /\ UNCHANGED rpcResponse
    /\ UNCHANGED <<rpcRequest, commandsLoaded>>
    /\ UNCHANGED <<selVars, cmdVars>>
    /\ UNCHANGED srvVars
    /\ UNCHANGED toolVars

\* the documents a handler that returns ok=true can leave behind: the one it
\* found (a preview, a read-only command), or, for a mutating command, the
\* one with the committed feature
DocumentsAfter(cmd, d, may_apply) ==
    {d} \cup (IF cmd \in Commands /\ may_apply
              THEN {[d EXCEPT !.features =
                                Append(@, Feature(d, MaxFaceDelta(cmd), MaxEdgeDelta(cmd),
                                                  <<0, 0>>))]}
              ELSE {})

\* result = handler_entry["handle"](request, context); response.update(result)
RpcHandle ==
    /\ rpcPc = "handle"
    /\ \E returned \in HandlerResults(rpcRequest.cmd) :
         /\ IF returned.does = "raises"
            THEN Raised("handle", returned.error[1])
            ELSE /\ rpcResponse' = Updated(rpcResponse, returned.ok, returned.error, "result")
                 /\ rpcPc' = "returned"
         /\ IF returned.ok
            THEN doc' \in DocumentsAfter(rpcRequest.cmd, doc, applies < MaxApplies)
            ELSE doc' = doc
    /\ applies' = IF doc' # doc THEN applies + 1 ELSE applies
    /\ UNCHANGED <<rpcRequest, commandsLoaded>>
    /\ UNCHANGED <<doc0, req, pc, frame, trace, resp, prev>>
    /\ UNCHANGED selVars
    /\ UNCHANGED srvVars
    /\ UNCHANGED toolVars

\* the caller takes the response and waits for the next request
RpcDeliver ==
    /\ rpcPc = "returned"
    /\ rpcPc' = "idle"
    /\ UNCHANGED <<rpcRequest, rpcResponse, commandsLoaded>>
    /\ UNCHANGED <<selVars, cmdVars>>
    /\ UNCHANGED srvVars
    /\ UNCHANGED toolVars

NextRpc ==
    \/ RpcReceive
    \/ RpcReadCmd
    \/ RpcDispatch
    \/ RpcLookup
    \/ RpcDesign
    \/ RpcHandle
    \/ RpcDeliver

SpecRpc == Init /\ [][NextRpc]_vars

(***************************************************************************)
(* _server_loop and RpcEventHandler.notify, step by step.  The server      *)
(* thread goes "accept" -> "fire" -> "wait" -> "send" -> "accept"; the     *)
(* host runs notify on its main thread, once per fired event, and notify   *)
(* runs _handle_request (the steps of SpecRpc) for each queued request.    *)
(***************************************************************************)

\* a queue that hands out the newest request first
NewestFirst(q) == q[Len(q)]

\* _request_queue.get_nowait(): the oldest request of the queue
GetNowait(q) == Head(q)

\* the queue without the request that was taken
Remaining(q, t) == SelectSeq(q, LAMBDA x : x # t)

\* the seconds _server_loop waits for the done event
WaitSeconds == 10

\* a wait without a timeout: it returns when the event is set, never before
DoneEventWaitForever(done, timeout) == IF done THEN {TRUE} ELSE {}

\* what done_event.wait(timeout) can return: true when the event is set,
\* false when the timeout passes first; without a timeout it blocks
DoneEventWait(done, timeout) ==
    IF done THEN {TRUE} ELSE IF timeout # None THEN {FALSE} ELSE {}

\* accept, recv, json.loads and _request_queue.put; data that is no JSON
\* makes json.loads raise, and the except block of the loop answers
ServerAccept ==
    /\ srv.pc = "accept"
    /\ Len(conn) < MaxRequests
    /\ \E v \in SrvRequests \cup {UndecodableRequest} :
         /\ conn' = Append(conn, NewConn(v))
         /\ IF v = UndecodableRequest
            THEN /\ srv' = [pc |-> "send", ticket |-> Len(conn) + 1,
                            response |-> Some(DecodeErrorResponse)]
                 /\ UNCHANGED queue
            ELSE /\ srv' = [srv EXCEPT !.pc = "fire", !.ticket = Len(conn) + 1]
                 /\ queue' = Append(queue, Len(conn) + 1)
    /\ UNCHANGED <<mainThread, handled>>
    /\ UNCHANGED <<selVars, cmdVars, rpcVars>>
    /\ UNCHANGED toolVars

\* _app.fireCustomEvent: the host queues an event, or the call raises or
\* returns false and no event is queued
ServerFire ==
    /\ srv.pc = "fire"
    /\ \E fired \in BOOLEAN :
         mainThread' = [mainThread EXCEPT !.events = IF fired THEN @ + 1 ELSE @]
    /\ srv' = [srv EXCEPT !.pc = "wait"]
    /\ UNCHANGED <<queue, conn, handled>>
    /\ UNCHANGED <<selVars, cmdVars, rpcVars>>
    /\ UNCHANGED toolVars

\* done_event.wait(10.0) returns true: the holder's response, or the default
ServerWaitDone ==
    /\ srv.pc = "wait"
    /\ TRUE \in DoneEventWait(conn[srv.ticket].done, Some(WaitSeconds))
    /\ srv' = [srv EXCEPT !.pc = "send", !.response = HeldResponse(conn, srv.ticket)]
    /\ UNCHANGED <<queue, conn, mainThread, handled>>
    /\ UNCHANGED <<selVars, cmdVars, rpcVars>>
    /\ UNCHANGED toolVars

\* done_event.wait(10.0) returns false: ten seconds passed with the event unset
ServerTimeout ==
    /\ srv.pc = "wait"
    /\ FALSE \in DoneEventWait(conn[srv.ticket].done, Some(WaitSeconds))
    /\ srv' = [srv EXCEPT !.pc = "send", !.response = Some(TimeoutResponse)]
    /\ UNCHANGED <<queue, conn, mainThread, handled>>
    /\ UNCHANGED <<selVars, cmdVars, rpcVars>>
    /\ UNCHANGED toolVars

\* conn.sendall(json.dumps(response)), and back to accept
ServerSend ==
    /\ srv.pc = "send"
    /\ conn' = [conn EXCEPT ![srv.ticket].sent = srv.response]
    /\ srv' = ServerIdle
    /\ UNCHANGED <<queue, mainThread, handled>>
    /\ UNCHANGED <<selVars, cmdVars, rpcVars>>
    /\ UNCHANGED toolVars

\* the host's main thread delivers a fired event: notify is entered
NotifyEnter ==
    /\ mainThread.events > 0
    /\ ~mainThread.running
    /\ mainThread' = [mainThread EXCEPT !.events = @ - 1, !.running = TRUE]
    /\ UNCHANGED <<srv, queue, conn, handled>>
    /\ UNCHANGED <<selVars, cmdVars, rpcVars>>
    /\ UNCHANGED toolVars

\* request, done_event, response_holder = _request_queue.get_nowait();
\* _handle_request(request) is entered
NotifyTake ==
    /\ mainThread.running
    /\ rpcPc = "idle"
    /\ queue # <<>>
    /\ LET t == GetNowait(queue)
       IN  /\ queue' = Remaining(queue, t)
           /\ mainThread' = [mainThread EXCEPT !.ticket = t]
           /\ handled' = Append(handled, t)
           /\ rpcRequest' = conn[t].request
           /\ rpcResponse' = NewRpcResponse(conn[t].request)
    /\ rpcPc' = "cmd"
    /\ UNCHANGED <<srv, conn, commandsLoaded>>
    /\ UNCHANGED <<selVars, cmdVars>>
    /\ UNCHANGED toolVars

\* response_holder["response"] = response
NotifyStore ==
    /\ mainThread.running
    /\ rpcPc = "returned"
    /\ conn' = [conn EXCEPT ![mainThread.ticket].held = Some(rpcResponse),
                            ![mainThread.ticket].of = mainThread.ticket]
    /\ rpcPc' = "stored"
    /\ UNCHANGED <<srv, queue, mainThread, handled>>
    /\ UNCHANGED <<rpcRequest, rpcResponse, commandsLoaded>>
    /\ UNCHANGED <<selVars, cmdVars>>
    /\ UNCHANGED toolVars

\* done_event.set()
NotifySetDone ==
    /\ mainThread.running
    /\ rpcPc = "stored"
    /\ conn' = [conn EXCEPT ![mainThread.ticket].done = TRUE]
    /\ rpcPc' = "idle"
    /\ UNCHANGED <<srv, queue, mainThread, handled>>
    /\ UNCHANGED <<rpcRequest, rpcResponse, commandsLoaded>>
    /\ UNCHANGED <<selVars, cmdVars>>
    /\ UNCHANGED toolVars

\* get_nowait raises queue.Empty: notify returns
NotifyReturn ==
    /\ mainThread.running
    /\ rpcPc = "idle"
    /\ queue = <<>>
    /\ mainThread' = [mainThread EXCEPT !.running = FALSE, !.ticket = 0]
    /\ UNCHANGED <<srv, queue, conn, handled>>
    /\ UNCHANGED <<selVars, cmdVars, rpcVars>>
    /\ UNCHANGED toolVars

NextSrv ==
    \/ ServerAccept
    \/ ServerFire
    \/ ServerWaitDone
    \/ ServerTimeout
    \/ ServerSend
    \/ NotifyEnter
    \/ NotifyTake
    \/ RpcReadCmd
    \/ RpcDispatch
    \/ RpcLookup
    \/ RpcDesign
    \/ RpcHandle
    \/ NotifyStore
    \/ NotifySetDone
    \/ NotifyReturn

\* the add-in starts with one document open
InitServer == Init /\ doc = InitialDoc({1})

SpecSrv == InitServer /\ [][NextSrv]_vars

\* the server thread keeps running: fireCustomEvent returns or raises, the wait
\* for the done event ends (set or timed out) and sendall returns.  Nothing
\* is assumed of the host: it may never deliver an event to notify.
FairServerThread ==
    /\ WF_vars(ServerFire)
    /\ WF_vars(ServerWaitDone \/ ServerTimeout)
    /\ WF_vars(ServerSend)

\* the connections a behaviour accepts where progress is checked
MaxFairRequests == 2

NextSrvFair ==
    \/ Len(conn) < MaxFairRequests /\ ServerAccept
    \/ ServerFire
    \/ ServerWaitDone
    \/ ServerTimeout
    \/ ServerSend
    \/ NotifyEnter
    \/ NotifyTake
    \/ RpcReadCmd
    \/ RpcDispatch
    \/ RpcLookup
    \/ RpcDesign
    \/ RpcHandle
    \/ NotifyStore
    \/ NotifySetDone
    \/ NotifyReturn

SpecSrvFair == InitServer /\ [][NextSrvFair]_vars /\ FairServerThread

(***************************************************************************)
(* The read-only measure commands as a system: the user adds, hides and    *)
(* shows bodies, and a client measures a body.  req and resp are the       *)
(* request and the response of the measure command.                        *)
(***************************************************************************)
MeasureCommands == {"measure_bbox", "get_body_info", "measure_face_span"}

\* the bodies a document may show
AllBodies == {1, 2, 3}

\* _find_body: the first visible solid body that the host enumerates, or the
\* first one of the given name; the host's order decides which is first
FindBody(d, body_name) ==
    LET bodies == ListVisibleBodies(d)
        named == {b \in bodies : body_name # "" => BodyName(b) = body_name}
    IN  IF named = {} THEN {0} ELSE named

\* the body a measure command resolves: measure_bbox through _find_body, the
\* other two through their own _resolve_body
BodiesFound(cmd, d, body_name) ==
    IF cmd = "measure_bbox" THEN FindBody(d, body_name) ELSE {ResolveBody(d, body_name)}

\* the error of a measure command that resolved no body
NoBodyError(cmd, d, body_name) ==
    CASE cmd = "measure_bbox" -> "No visible solid body found."
      [] cmd = "get_body_info" ->
           IF body_name # "" THEN "Body not found: " \o body_name
           ELSE IF ListVisibleBodies(d) = {} THEN "No solid bodies found."
           ELSE "Multiple bodies found; specify body_name."
      [] OTHER ->
           IF body_name # "" THEN "Body not found: " \o body_name
           ELSE IF ListVisibleBodies(d) = {} THEN "No visible solid body found."
           ELSE "Multiple visible bodies; specify body_name."

\* the response of a measure command for the body it resolved.  measure_bbox
\* reads body.boundingBox outside any try, so a bounding box that raises or
\* is empty raises out of the handler and the dispatcher answers with the
\* traceback; the other two answer "Failed to read body bounding box."
MeasureResponse(cmd, d, body_name, body, reading) ==
    IF body = 0 THEN Rejected(NoBodyError(cmd, d, body_name))
    ELSE IF BboxMm(reading) = None
    THEN [Rejected(IF cmd = "measure_bbox" THEN Traceback("boundingBox")
                   ELSE "Failed to read body bounding box.")
          EXCEPT !.measured = body,
                 !.measure_after = IF cmd = "get_body_info" THEN Some(GetBodyInfo(reading))
                                   ELSE None]
    ELSE [NoResponse EXCEPT !.sent = TRUE, !.ok = TRUE, !.measured = body,
                            !.measure_after =
                               IF cmd = "get_body_info" THEN Some(GetBodyInfo(reading))
                               ELSE Some([BodyMeasurement(reading) EXCEPT !.volume_mm3 = None])]

\* the user adds or shows a body, or hides or removes one
HostChangesBodies ==
    /\ \E b \in AllBodies :
         doc' = [doc EXCEPT !.bodies = IF b \in @ THEN @ \ {b} ELSE @ \cup {b}]
    /\ req' = NoRequest
    /\ resp' = NoResponse
    /\ UNCHANGED <<doc0, pc, frame, trace, prev, applies>>
    /\ UNCHANGED <<selVars, rpcVars, srvVars>>
    /\ UNCHANGED toolVars

\* a client sends a measure command and the handler answers it
MeasureCommand ==
    /\ \E cmd \in MeasureCommands, body_name \in BodyNames :
         \E body \in BodiesFound(cmd, doc, body_name), reading \in BodyReadings :
           /\ req' = [NoRequest EXCEPT !.cmd = cmd, !.body_name = body_name]
           /\ resp' = MeasureResponse(cmd, doc, body_name, body, reading)
    /\ UNCHANGED <<doc, doc0, pc, frame, trace, prev, applies>>
    /\ UNCHANGED <<selVars, rpcVars, srvVars>>
    /\ UNCHANGED toolVars

NextInfo == HostChangesBodies \/ MeasureCommand

SpecInfo == Init /\ [][NextInfo]_vars

(***************************************************************************)
(* A length on its way from a request to the host and back: the request's  *)
(* millimetres, _mm_to_internal, then _convert_mm on what the host         *)
(* reports.                                                                *)
(***************************************************************************)

\* a request carries a length of n/10 mm
ConvInput ==
    /\ conv.pc \in {"idle", "back"}
    /\ \E n \in (1..MaxTenths) \cup RoundTripTenths :
         conv' = [NoConversion EXCEPT !.pc = "mm", !.tenths = n, !.mm = Tenths(n)]
    /\ UNCHANGED <<vision, agent>>
    /\ UNCHANGED <<selVars, cmdVars, rpcVars, srvVars>>

\* _mm_to_internal
ConvToInternal ==
    /\ conv.pc = "mm"
    /\ \E path \in {"manager", "fallback", "no_manager"} :
         conv' = [conv EXCEPT !.pc = "internal", !.forward = path,
                              !.internal = MmToInternal(conv.mm, path)]
    /\ UNCHANGED <<vision, agent>>
    /\ UNCHANGED <<selVars, cmdVars, rpcVars, srvVars>>

\* _convert_mm; without a unit manager only its fallback can run
ConvToMm ==
    /\ conv.pc = "internal"
    /\ \E path \in (IF conv.forward = "no_manager" THEN {"fallback"}
                    ELSE {"manager", "fallback"}) :
         conv' = [conv EXCEPT !.pc = "back", !.back = path,
                              !.out = ConvertMmFloat(conv.internal, path)]
    /\ UNCHANGED <<vision, agent>>
    /\ UNCHANGED <<selVars, cmdVars, rpcVars, srvVars>>

NextUnits == ConvInput \/ ConvToInternal \/ ConvToMm

SpecUnits == InitServer /\ [][NextUnits]_vars

(***************************************************************************)
(* vision_client, step by step.  vision.pc is the step the call is at:     *)
(*   "idle" -> "loop" -> ("request" -> ("sleep" -> "loop" | "failed" |     *)
(*   "after_loop")) | "after_loop" -> ("done" | "failed") -> "idle".       *)
(* requests counts the urlopen calls, in_flight those not yet answered,    *)
(* outcomes lists what each was answered with, slept the time.sleep calls  *)
(* between them.                                                           *)
(***************************************************************************)

\* the call, up to the for statement: without an API key it raises at once
VisionCall ==
    /\ vision.pc = "idle"
    /\ \E n \in 0..MaxAttempts, api_key \in BOOLEAN :
         vision' = IF api_key
                   THEN [NoVisionCall EXCEPT !.pc = "loop", !.max_attempts = n, !.attempt = 1]
                   ELSE [NoVisionCall EXCEPT !.pc = "failed", !.max_attempts = n,
                                             !.error = "FUSION_VISION_API_KEY is not set"]
    /\ UNCHANGED <<conv, agent>>
    /\ UNCHANGED <<selVars, cmdVars, rpcVars, srvVars>>

\* for attempt in range(1, max_attempts + 1): the next attempt opens the
\* URL, or the range is exhausted
VisionAttempt ==
    /\ vision.pc = "loop"
    /\ vision' = IF vision.attempt <= vision.max_attempts
                 THEN [vision EXCEPT !.pc = "request", !.requests = @ + 1, !.in_flight = @ + 1]
                 ELSE [vision EXCEPT !.pc = "after_loop"]
    /\ UNCHANGED <<conv, agent>>
    /\ UNCHANGED <<selVars, cmdVars, rpcVars, srvVars>>

\* urlopen returns or raises: break, a retry after a sleep, or the
\* RuntimeError
VisionAnswered ==
    /\ vision.pc = "request"
    /\ \E outcome \in AttemptOutcomes :
         LET answered == [vision EXCEPT !.in_flight = @ - 1,
                                        !.outcomes = Append(@, outcome)]
         IN  vision' =
               IF outcome.kind = "ok" THEN [answered EXCEPT !.pc = "after_loop"]
               ELSE IF outcome.kind = "http_error"
                       /\ Retries(outcome.code, vision.attempt, vision.max_attempts)
               THEN [answered EXCEPT !.pc = "sleep"]
               ELSE [answered EXCEPT !.pc = "failed", !.error = "Vision request failed"]
    /\ UNCHANGED <<conv, agent>>
    /\ UNCHANGED <<selVars, cmdVars, rpcVars, srvVars>>

\* time.sleep(sleep_for); continue
VisionSleep ==
    /\ vision.pc = "sleep"
    /\ LET last == vision.outcomes[Len(vision.outcomes)]
       IN  vision' = [vision EXCEPT !.pc = "loop", !.attempt = @ + 1,
                                    !.slept = Append(@, SleepFor(last.retry_after,
                                                                 vision.attempt))]
    /\ UNCHANGED <<conv, agent>>
    /\ UNCHANGED <<selVars, cmdVars, rpcVars, srvVars>>

\* after the loop: last_error is None after a break and when the loop ran
\* no attempt; body is bound only after a break
VisionAfterLoop ==
    /\ vision.pc = "after_loop"
    /\ LET last_error == IF vision.outcomes = <<>> THEN None
                         ELSE IF vision.outcomes[Len(vision.outcomes)].kind = "ok" THEN None
                         ELSE Some(vision.outcomes[Len(vision.outcomes)])
       IN  vision' = IF last_error # None
                     THEN [vision EXCEPT !.pc = "failed",
                                         !.error = "Vision request failed after retries"]
                     ELSE IF vision.outcomes = <<>>
                     THEN [vision EXCEPT !.pc = "failed", !.error = "UnboundLocalError"]
                     ELSE [vision EXCEPT !.pc = "done"]
    /\ UNCHANGED <<conv, agent>>
    /\ UNCHANGED <<selVars, cmdVars, rpcVars, srvVars>>

\* the call has returned or raised; the caller may call again
VisionReturn ==
    /\ vision.pc \in {"done", "failed"}
    /\ vision' = NoVisionCall
    /\ UNCHANGED <<conv, agent>>
    /\ UNCHANGED <<selVars, cmdVars, rpcVars, srvVars>>

NextVision ==
    \/ VisionCall
    \/ VisionAttempt
    \/ VisionAnswered
    \/ VisionSleep
    \/ VisionAfterLoop
    \/ VisionReturn

SpecVision == InitServer /\ [][NextVision]_vars

(***************************************************************************)
(* run_loop, step by step: "idle" -> "iterate" -> "decide" -> "act" ->     *)
(* "iterate" ..., and "ended" when the loop is left.                       *)
(***************************************************************************)

\* run_loop is called: the bootstrap fails and the function returns, or the
\* planner starts in BOOTSTRAP with vision_confirmed set
RunLoop ==
    /\ agent.pc = "idle"
    /\ \E max_steps \in 1..MaxLoopSteps, ok \in BOOLEAN :
         agent' = [NoRun EXCEPT !.pc = IF ok THEN "iterate" ELSE "ended",
                                !.max_steps = max_steps]
    /\ UNCHANGED <<conv, vision>>
    /\ UNCHANGED <<selVars, cmdVars, rpcVars, srvVars>>

\* the head of an iteration: captures, the vision client's observation,
\* update_progress, and RECOVER when the planner is stuck
LoopObserve ==
    /\ agent.pc = "iterate"
    /\ agent.step < agent.max_steps
    /\ \E confident \in BOOLEAN, progress \in Progresses :
         LET stuck == UpdateProgress(agent.last_progress, agent.stuck_count, progress)
         IN  agent' = [agent EXCEPT !.pc = "decide",
                                    !.step = @ + 1,
                                    !.confident = confident,
                                    !.stuck_count = stuck,
                                    !.last_progress =
                                       IF @ = None \/ @ # Some(progress) THEN Some(progress)
                                       ELSE @,
                                    !.state = IF stuck >= StuckLimit THEN "RECOVER" ELSE @]
    /\ UNCHANGED <<conv, vision>>
    /\ UNCHANGED <<selVars, cmdVars, rpcVars, srvVars>>

\* the action of the iteration: the recover wait, or planner.decide_action;
\* the loop breaks when there is none
LoopDecide ==
    /\ agent.pc = "decide"
    /\ LET decided == IF agent.state = "RECOVER"
                      THEN [agent EXCEPT !.action = [intent |-> "recover",
                                                     from_pending |-> FALSE]]
                      ELSE DecideAction(agent)
       IN  agent' = [decided EXCEPT !.pc = IF decided.action.intent = "none"
                                           THEN "ended" ELSE "act"]
    /\ UNCHANGED <<conv, vision>>
    /\ UNCHANGED <<selVars, cmdVars, rpcVars, srvVars>>

\* an action with intent "edit": save_snapshot, planner.pending_action =
\* action, continue; any other action is dispatched to its tool
LoopAct ==
    /\ agent.pc = "act"
    /\ IF agent.action.intent = "edit"
       THEN agent' = [agent EXCEPT !.pc = "iterate", !.snapshots = @ + 1, !.pending = TRUE,
                                   !.action = NoAction]
       ELSE agent' = [agent EXCEPT !.pc = "iterate",
                                   !.dispatched = @ \cup {agent.action.intent},
                                   !.action = NoAction]
    /\ UNCHANGED <<conv, vision>>
    /\ UNCHANGED <<selVars, cmdVars, rpcVars, srvVars>>

\* range(max_steps) is exhausted
LoopExhausted ==
    /\ agent.pc = "iterate"
    /\ agent.step = agent.max_steps
    /\ agent' = [agent EXCEPT !.pc = "ended"]
    /\ UNCHANGED <<conv, vision>>
    /\ UNCHANGED <<selVars, cmdVars, rpcVars, srvVars>>

NextLoop ==
    \/ RunLoop
    \/ LoopObserve
    \/ LoopDecide
    \/ LoopAct
    \/ LoopExhausted

SpecLoop == InitServer /\ [][NextLoop]_vars

(***************************************************************************)
(* Properties of the resolvers.                                            *)
(***************************************************************************)
\* every order in which the host can enumerate the entities of the pool
Enumerations(entities) ==
    {[i \in 1..Len(entities) |-> entities[f[i]]] : f \in Permutations(1..Len(entities))}

Answered == result.status \in {"resolved", "not_found"}

\* C1: for a fixed set of candidate entities and a parsed selector, the
\* resolver returns the same winning entity and the same pool size for every
\* order in which the host enumerates the entities.
C1_Determinism ==
    Answered =>
      \A p \in Enumerations(pool) :
        /\ Select(p, Parsed, enumOk).winner = result.winner
        /\ Select(p, Parsed, enumOk).n = result.n

\* The entities whose token cannot be read.  With at most one of them in the
\* pool the identity tokens are pairwise distinct and the order is immaterial.
Tokenless == {i \in 1..Len(pool) : IsNone(pool[i].token)}

DeterminismWithReadableTokens ==
    (Answered /\ Cardinality(Tokenless) <= 1) =>
      \A p \in Enumerations(pool) :
        /\ Select(p, Parsed, enumOk).winner = result.winner
        /\ Select(p, Parsed, enumOk).n = result.n

(***************************************************************************)
(* Properties of the mutating commands.                                    *)
(***************************************************************************)
TraceSet == {trace[i] : i \in 1..Len(trace)}

\* event a is in the trace and event b follows it
IssuedInOrder(a, b) == \E i, j \in 1..Len(trace) : i < j /\ trace[i] = a /\ trace[j] = b

GuardrailErrors ==
    {"Apply exceeded MAX_APPLY_MS", "face_count_delta exceeded MAX_FACE_DELTA",
     "edge_count_delta exceeded MAX_EDGE_DELTA", "body_count_delta exceeded MAX_BODY_DELTA"}

AmbiguityErrors == {"Multiple bodies created; guardrail failure.", "No new body created."}

ApplyFailedErrors ==
    {ApplyFailedError(c, v) : c \in Commands, v \in {"rectangular", "circular"}}

\* the kind of the error taxonomy that an error string of the code falls under
ErrorKind(error) ==
    CASE error \in GuardrailErrors -> "GuardrailViolation"
      [] error \in AmbiguityErrors -> "ResultAmbiguous"
      [] error \in ApplyFailedErrors -> "ApplyFailed"
      [] OTHER -> "Other"

\* the handler has taken its after snapshot and has not answered yet
PastGuardrailCheck == pc \in {"rollback", "disambiguate", "commit"}

\* the deltas between the handler's before snapshot and the document
FaceDelta == TotalCounts(doc).faces - frame.before_faces

EdgeDelta == TotalCounts(doc).edges - frame.before_edges

BodyDelta == Cardinality(ListVisibleBodies(doc)) - Cardinality(frame.before_bodies)

CountBreached ==
    \/ FaceDelta > MaxFaceDelta(req.cmd)
    \/ EdgeDelta > MaxEdgeDelta(req.cmd)
    \/ BodyDelta > MaxBodyDelta(req.cmd)

\* the milliseconds that may pass between the reading of timing_ms and the
\* guardrail check's own reading of the clock (hole_feature)
ClockLags == IF req.cmd = "hole_feature" THEN {0, 1} ELSE {0}

\* the guardrail error the handler holds, "" when it holds none
HeldGuardrailError == IF frame.error \in GuardrailErrors THEN frame.error ELSE ""

\* the shape of every guardrail rollback response
RollbackResponseShape ==
    (resp.sent /\ resp.error \in GuardrailErrors) =>
      /\ ~resp.ok
      /\ resp.plan # None
      /\ resp.data = {"preview"}
      /\ IssuedInOrder("create_feature", "delete_feature")

\* a breach never proceeds to disambiguation or commit
BreachIsRolledBack ==
    (pc \in {"disambiguate", "commit"}) => (~CountBreached /\ frame.timing_ms <= MaxApplyMs(req.cmd))

\* C2 (as stated): a breached guardrail after a successful apply makes the
\* handler issue a delete of the created feature and answer ok=false with
\* the guardrail error and data holding only the plan; and a face-count
\* delta of MAX_FACE_DELTA + 1 gives the error naming face_count_delta.
C2_AsStated ==
    /\ BreachIsRolledBack
    /\ RollbackResponseShape
    /\ (pc = "rollback" /\ FaceDelta = MaxFaceDelta(req.cmd) + 1) =>
         frame.error = "face_count_delta exceeded MAX_FACE_DELTA"

\* C2 (amended): as above, but a face-count delta of MAX_FACE_DELTA + 1 gives
\* the error naming face_count_delta only when the elapsed time is within
\* MAX_APPLY_MS; when the time is exceeded too, the error names MAX_APPLY_MS.
C2_GuardrailRollback ==
    /\ BreachIsRolledBack
    /\ RollbackResponseShape
    /\ (pc = "rollback" /\ FaceDelta = MaxFaceDelta(req.cmd) + 1) =>
         IF \A lag \in ClockLags : frame.timing_ms + lag <= MaxApplyMs(req.cmd)
         THEN frame.error = "face_count_delta exceeded MAX_FACE_DELTA"
         ELSE IF \A lag \in ClockLags : frame.timing_ms + lag > MaxApplyMs(req.cmd)
         THEN frame.error = "Apply exceeded MAX_APPLY_MS"
         ELSE frame.error \in {"Apply exceeded MAX_APPLY_MS",
                               "face_count_delta exceeded MAX_FACE_DELTA"}

C2_Witness ==
    /\ resp.sent
    /\ resp.error = "face_count_delta exceeded MAX_FACE_DELTA"
    /\ "delete_feature" \in TraceSet
    /\ req.cmd = "fillet_feature"

\* the first threshold breached in the order time, faces, edges, bodies,
\* written out as the error that names it
FirstBreached(lag) ==
    LET breached == <<frame.timing_ms + lag > MaxApplyMs(req.cmd),
                      FaceDelta > MaxFaceDelta(req.cmd),
                      EdgeDelta > MaxEdgeDelta(req.cmd),
                      BodyDelta > MaxBodyDelta(req.cmd)>>
        names == <<"Apply exceeded MAX_APPLY_MS", "face_count_delta exceeded MAX_FACE_DELTA",
                   "edge_count_delta exceeded MAX_EDGE_DELTA",
                   "body_count_delta exceeded MAX_BODY_DELTA">>
    IN  IF \A i \in 1..4 : ~breached[i] THEN ""
        ELSE names[CHOOSE i \in 1..4 : breached[i] /\ \A j \in 1..(i - 1) : ~breached[j]]

\* C3: the guardrail check reports exactly one error, the one naming the
\* first breached threshold in the order elapsed time, face delta, edge
\* delta, body delta (the error is a single string, so it names one).
C3_GuardrailOrder ==
    PastGuardrailCheck => \E lag \in ClockLags : HeldGuardrailError = FirstBreached(lag)

C3_Witness ==
    /\ pc = "rollback"
    /\ frame.timing_ms <= MaxApplyMs(req.cmd)
    /\ req.cmd # "hole_feature"
    /\ FaceDelta <= MaxFaceDelta(req.cmd)
    /\ EdgeDelta > MaxEdgeDelta(req.cmd)
    /\ BodyDelta > MaxBodyDelta(req.cmd)
    /\ frame.error = "edge_count_delta exceeded MAX_EDGE_DELTA"
\* the host calls issued for the request being handled
IssuedCalls == TraceSet \cap HostCalls

\* C4: a request with preview=true leaves the document unchanged and issues
\* no create, delete or recompute call, however its inputs are given.
C4_PreviewLeavesDocument ==
    (resp.sent /\ req.preview) => (doc = doc0 /\ IssuedCalls = {})

\* the same claim for the input forms other than revolve_feature's axis_line_mm
PreviewLeavesDocumentWithoutAxisLine ==
    (resp.sent /\ req.preview /\ req.by # "axis_line_mm") => (doc = doc0 /\ IssuedCalls = {})

\* the request before the current one was the same preview
RepeatedPreview == resp.sent /\ req.preview /\ prev.req = req

\* C5: the same command issued twice with preview=true and nothing in
\* between returns equal plans, and the number of visible bodies and their
\* aggregate face and edge counts after the second call are those before
\* the first.
C5_PreviewTwice ==
    RepeatedPreview =>
      /\ (resp.ok /\ prev.plan # None) => resp.plan = prev.plan
      /\ Cardinality(ListVisibleBodies(doc)) = Cardinality(ListVisibleBodies(prev.doc))
      /\ TotalCounts(doc) = TotalCounts(prev.doc)

C5_Witness ==
    /\ RepeatedPreview
    /\ resp.ok
    /\ prev.plan # None
    /\ req.by = "axis_line_mm"
    /\ doc.axes = 2
    /\ ListVisibleBodies(doc) # {}

\* the current request and the one before it have the same fields and were
\* received in the same document state, one as a preview and one as an apply,
\* and both responses carry a plan
PreviewAndApply ==
    /\ resp.sent
    /\ prev.req # NoRequest
    /\ SameFields(prev.req, req)
    /\ prev.req.preview # req.preview
    /\ prev.doc = doc0
    /\ prev.plan # None
    /\ resp.plan # None

\* C6: for the same request fields and the same document state, the plan of
\* the preview equals the plan carried by the preview=false response, be it
\* a commit, an apply failure or a rollback.
C6_PlanSameInBothModes == PreviewAndApply => resp.plan = prev.plan

C6_Witness ==
    /\ PreviewAndApply
    /\ prev.req.preview
    /\ resp.error \in GuardrailErrors
    /\ req.cmd = "hole_feature"

\* the errors of the PLAN step's checks
ValidationErrors ==
    UNION {SeqRange(FieldChecks(r.cmd, r.variant, r.by)) \ {"BODY"} : r \in Requests}
    \cup {"Body not found", "No visible solid body found.",
          "Multiple visible bodies; specify body_name."}

NewIdentities == NewCandidates(frame.before_bodies, doc)

\* the bodies visible now whose identity was not visible when the request
\* was received
NewSinceReceived == NewCandidates(ListVisibleBodies(doc0), doc)

\* extrude_feature with operation new_body
FaceExtrudeNewBody == req.cmd = "extrude_feature" /\ req.variant = "new_body"

\* a committed extrude_feature new_body response
CommittedNewBody == resp.sent /\ resp.ok /\ ~req.preview /\ FaceExtrudeNewBody

\* what the commit of a new_body extrude answers
NewBodyCommitShape ==
    CommittedNewBody =>
      /\ Cardinality(NewSinceReceived) = 1
      /\ resp.measured \in NewSinceReceived
      /\ resp.source_body = ResolveBody(doc0, req.body_name)
      /\ resp.source_body # 0
      /\ "measure_after" \in resp.data

\* what an ambiguity response looks like
AmbiguityResponseShape ==
    (resp.sent /\ ErrorKind(resp.error) = "ResultAmbiguous") =>
      /\ ~resp.ok
      /\ resp.data = {"preview"}
      /\ IssuedInOrder("create_feature", "delete_feature")

ProfileOrRevolveNewBody ==
    req.cmd \in {"extrude_profile", "revolve_feature"} /\ req.variant = "new_body"

\* C9: an extrude_profile or revolve_feature new_body apply that leaves zero
\* or more than one new body identity is rolled back and answered ok=false;
\* it is never committed with ok=true.
C9_NewBodyNeverCommittedAmbiguous ==
    /\ (ProfileOrRevolveNewBody /\ PastGuardrailCheck /\ Cardinality(NewIdentities) # 1) =>
         pc = "rollback"
    /\ (ProfileOrRevolveNewBody /\ resp.sent /\ resp.ok /\ ~req.preview) =>
         Cardinality(NewSinceReceived) = 1

\* the events of the trace from the start of the host operation on
FromHostOperation ==
    LET started == {i \in 1..Len(trace) : trace[i] \in {"create_sketch", "create_feature"}}
    IN  IF started = {} THEN <<>>
        ELSE SubSeq(trace, CHOOSE i \in started : \A j \in started : i <= j, Len(trace))

\* C10: when the host operation raises during APPLY, the handler issues a
\* delete of the feature if it had been created (and none otherwise), takes
\* no after snapshot, guardrail check or measurement, and answers ok=false
\* with the apply-failed error and the plan.
C10_ApplyFailure ==
    (resp.sent /\ ErrorKind(resp.error) = "ApplyFailed") =>
      /\ ~resp.ok
      /\ resp.plan # None
      /\ resp.data = {"preview"}
      /\ FromHostOperation # <<>>
      /\ SeqRange(FromHostOperation) \subseteq HostCalls
      /\ "compute" \in TraceSet <=> IssuedInOrder("create_feature", "delete_feature")
      /\ Len(doc.features) > Len(doc0.features) => "delete_feature" \in TraceSet

C10_Witness ==
    /\ resp.sent
    /\ resp.error = "Extrude failed"
    /\ IssuedInOrder("compute", "delete_feature")
    /\ doc.features = doc0.features

\* the handler is at the guardrail check after a design.computeAll() that
\* raised: the recompute was the last call issued and compute_ran stayed False
RecomputeRaised == pc = "check" /\ trace # <<>> /\ trace[Len(trace)] = "compute" /\ ~frame.compute_ran

\* the recompute was attempted and raised, and the handler is past the check
PastCheckAfterFailedRecompute ==
    PastGuardrailCheck /\ IssuedInOrder("create_feature", "compute") /\ ~frame.compute_ran

\* the response of a handler that issued the recompute after the host
\* operation is one it gave after the guardrail check
AnsweredAfterCheck ==
    (resp.sent /\ IssuedInOrder("create_feature", "compute")) => "guardrail_check" \in TraceSet

\* a failed recompute keeps the feature, and is committed with
\* compute.ran=false when no guardrail is breached
FailedRecomputeProceeds ==
    /\ RecomputeRaised => (frame.feature # 0 /\ Len(doc.features) = frame.feature)
    /\ (PastCheckAfterFailedRecompute /\ \A lag \in ClockLags : FirstBreached(lag) = "") =>
         pc \in {"commit", "disambiguate"} \/ frame.error \in AmbiguityErrors
    /\ (resp.sent /\ resp.ok /\ ~req.preview /\ "compute" \notin TraceSet) => ~resp.compute_ran

\* C11: in every mutating command a recompute that raises after a successful
\* host operation does not fail the command: compute.ran=false is recorded,
\* the feature is kept, the guardrail check follows, and the command commits
\* with ok=true when no guardrail is breached.
C11_RecomputeFailureNotFatal == AnsweredAfterCheck /\ FailedRecomputeProceeds

\* the same for the seven handlers other than extrude_feature
RecomputeFailureNotFatalElsewhere ==
    req.cmd # "extrude_feature" => (AnsweredAfterCheck /\ FailedRecomputeProceeds)

\* a commit that reports compute.ran=false after a recompute that raised
CommittedAfterFailedRecompute ==
    /\ resp.sent
    /\ resp.ok
    /\ ~req.preview
    /\ "compute" \in TraceSet
    /\ ~resp.compute_ran

\* the errors that lead to a rollback
RollbackErrors == GuardrailErrors \cup AmbiguityErrors

\* a step of the rollback
RollbackStep == pc = "rollback" /\ pc' = "idle"

\* C12: whatever the feature delete or the recompute of a rollback raises is
\* swallowed: the response is ok=false with the guardrail or ambiguity error
\* the handler held before the rollback and data holding only the plan, and
\* the document either lost the created feature or still has it.
C12_RollbackFailureSwallowed ==
    [][RollbackStep =>
         /\ frame.error \in RollbackErrors
         /\ resp'.sent
         /\ ~resp'.ok
         /\ resp'.error = frame.error
         /\ resp'.plan = frame.plan
         /\ resp'.data = {"preview"}
         /\ doc' \in {doc, WithoutLastFeature(doc)}]_vars

\* a rollback whose delete raised: the response carries the guardrail error
\* and the created feature is still in the document
C12_Witness ==
    /\ resp.sent
    /\ ~resp.ok
    /\ resp.error = "body_count_delta exceeded MAX_BODY_DELTA"
    /\ IssuedInOrder("guardrail_check", "delete_feature")
    /\ ~IssuedInOrder("delete_feature", "compute")
    /\ req.cmd = "mirror_feature"
    /\ Len(doc.features) = Len(doc0.features) + 1

(***************************************************************************)
(* Properties of the resolvers' ordering and of their return value.        *)
(***************************************************************************)
\* the candidates of the pool, as a set
CandidateSet == SeqRange(Candidates(pool, Parsed))

\* the secondary magnitude as the ordering sees it: an absent one counts -1
OrderedMagnitude(c) == IF IsNone(c.mag) THEN -1 ELSE c.mag[1]

\* the key of the documented order
DocumentedKey(c) == <<-c.score, -OrderedMagnitude(c)>> \o c.tuple \o <<c.id>>

\* no candidate of cs precedes the winner, one of ws, under the documented key
WinnerIsFirst(ws, cs) ==
    \A w \in ws, c \in cs : ~TupleLess(DocumentedKey(c), DocumentedKey(w))

\* the three levels of the tie-break, one by one
WinnerBreaksTies(ws, cs) ==
    \A w \in ws, c \in cs :
      c.score = w.score =>
        /\ OrderedMagnitude(w) >= OrderedMagnitude(c)
        /\ OrderedMagnitude(w) = OrderedMagnitude(c) =>
             /\ ~TupleLess(c.tuple, w.tuple)
             /\ c.tuple = w.tuple => w.id <= c.id

\* two faces of equal area, one with its centroid at the origin and one with
\* its centroid further along x, resolved under largest_area
EqualAreaPair ==
    /\ Parsed.kind = "face"
    /\ Parsed.type = "largest_area"
    /\ Cardinality(CandidateSet) = 2
    /\ \A c, d \in CandidateSet : c.mag = d.mag
    /\ {c.tuple : c \in CandidateSet} = {PointTupleMm(<<0, 0, 0>>), PointTupleMm(<<1, 0, 0>>)}

\* C13: the winner is the first candidate under ascending order of the key
\* (-score, -magnitude with an absent magnitude as -1, position, token):
\* among equal scores the larger area or length wins, then the smaller
\* position, then the smaller token; of two faces of equal area with
\* centroids at the origin and along x, largest_area picks the one at the
\* origin.
C13_TieBreakOrder ==
    result.status = "resolved" =>
      LET cs == CandidateSet
          \* the candidate record of the winner
          ws == {c \in cs : c.h = result.winner}
      IN  /\ ws # {}
          /\ WinnerIsFirst(ws, cs)
          /\ WinnerBreaksTies(ws, cs)
          /\ EqualAreaPair => \A w \in ws : w.tuple = PointTupleMm(<<0, 0, 0>>)

\* the pair of the example, enumerated with the face along x first and
\* carrying the smaller token
C13_Witness ==
    /\ result.status = "resolved"
    /\ EqualAreaPair
    /\ Len(pool) = 2
    /\ pool[1].pos = <<1, 0, 0>>
    /\ ~IsNone(pool[1].token) /\ ~IsNone(pool[2].token)
    /\ pool[1].token[1] < pool[2].token[1]
    /\ result.winner = pool[2].h

\* no two candidates of the pool, at different places of the enumeration,
\* have equal tie-break keys
KeysPairwiseDistinct ==
    LET cs == Candidates(pool, Parsed)
    IN  \A i, j \in 1..Len(cs) : i # j => TieKey(cs[i]) # TieKey(cs[j])

\* C14: within one candidate pool no two distinct candidates have equal
\* tie-break keys, whatever the host presents, entities without a readable
\* identity token included; the winner is never left to the sort's treatment
\* of equal keys.
C14_StrictTotalOrder == Answered => KeysPairwiseDistinct

\* the same for pools with at most one entity whose token cannot be read
StrictTotalOrderWithReadableTokens ==
    (Answered /\ Cardinality(Tokenless) <= 1) => KeysPairwiseDistinct

\* whether the resolver skips entity e: a face that is not planar where the
\* selector wants a plane, an unreadable centroid, midpoint or point, or an
\* unreadable metric
FilteredOut(e, sel) ==
    \/ sel.kind = "face" /\ sel.type \in {"largest_planar", "normal_closest"} /\ e.geom # "plane"
    \/ IsNone(e.pos)
    \/ sel.type \in {"largest_planar", "largest_area", "longest_edge"} /\ IsNone(e.mag)
    \/ sel.type = "normal_closest" /\ IsNone(e.vec)
    \/ sel.type \in {"max_bbox", "min_bbox"} /\ IsNone(e.bbox)
    \/ sel.type = "closest_to_point" /\ IsNone(sel.point)

\* the entities that survive; none when the enumeration itself raises
Survivors ==
    IF ~enumOk THEN {} ELSE {i \in 1..Len(pool) : ~FilteredOut(pool[i], Parsed)}

\* what a resolver returns: (winner, n) with n the number of survivors and
\* the winner among them, or (None, 0) when nothing survives
ResolverContract ==
    Answered =>
      /\ result.n = Cardinality(Survivors)
      /\ IF Survivors = {}
         THEN result.winner = 0 /\ result.status = "not_found"
         ELSE /\ result.n >= 1
              /\ result.status = "resolved"
              /\ result.winner \in {pool[i].h : i \in Survivors}

\* a pool with filtered and surviving entities, resolved
FilteredAndSurviving ==
    /\ result.status = "resolved"
    /\ result.n = 1
    /\ Len(pool) = 2
    /\ FilteredOut(pool[1], Parsed)

\* the errors that report an empty pool
NothingMatchedErrors ==
    {"No planar faces matched selector.", "No edges matched selector.",
     "No faces matched selector.", "No edges matched axis_selector."}

\* the handler called a resolver for the request and it returned (None, 0)
ResolvedNothing ==
    /\ req.defect \in NothingMatchedErrors \cup {NoFaceToRemove}
    /\ ResolveBody(doc0, req.body_name) # 0

\* every command answers the empty case with a not-found error
EmptyCaseIsReported ==
    (resp.sent /\ ResolvedNothing) => (~resp.ok /\ resp.error \in NothingMatchedErrors)

\* the same for the commands that resolve a selector of the request
EmptyCaseIsReportedForRequestSelectors ==
    (resp.sent /\ ResolvedNothing /\ req.defect # NoFaceToRemove) =>
      (~resp.ok /\ resp.error = req.defect /\ IssuedCalls = {})

\* C15: a resolver returns (winner, n) with n >= 1 the number of candidates
\* that survived filtering and the winner one of them, or (None, 0) when none
\* survives; entities filtered out are never counted; and the command that
\* called the resolver reports the empty case as a not-found error.
C15_ResolverResult == ResolverContract /\ EmptyCaseIsReported

\* the request has the handler resolve a closest_to_point edge selector
\* without a reference point
ResolvesClosestWithoutPoint ==
    /\ req.defect \in {"point_mm is required for closest_to_point", NoPointForAxis}
    /\ ResolveBody(doc0, req.body_name) # 0

\* the InvalidInput error of the missing point, which is none of the
\* not-found errors
PointRequiredError == "point_mm is required for closest_to_point"

\* C16: a command that resolves a closest_to_point selector for a request
\* without a reference point fails with the error saying the point is
\* required, not with the not-found error of an empty pool; this holds for
\* fillet_feature's edge_selector and for revolve_feature's axis_selector.
C16_PointRequired ==
    (resp.sent /\ ResolvesClosestWithoutPoint) =>
      /\ ~resp.ok
      /\ resp.error = PointRequiredError
      /\ resp.error \notin NothingMatchedErrors

\* the same for fillet_feature alone
PointRequiredByFillet ==
    (resp.sent /\ ResolvesClosestWithoutPoint /\ req.cmd = "fillet_feature") =>
      (~resp.ok /\ resp.error = PointRequiredError /\ IssuedCalls = {})

\* what revolve_feature answers instead
AxisWithoutPointIsNotFound ==
    (resp.sent /\ ResolvesClosestWithoutPoint /\ req.cmd = "revolve_feature") =>
      (~resp.ok /\ resp.error = "No edges matched axis_selector." /\ IssuedCalls = {})

\* 0 < distance_mm <= 50.0
DistanceInRange(v) == v.kind = "number" /\ 0 < v.micro /\ v.micro <= ToMicro(50)

\* the checks of extrude_feature that come before _resolve_body
ChecksBeforeBody ==
    {"No active design.", "Unsupported units", "Unsupported face_selector",
     "Unsupported operation", "Unsupported direction"} \cup DistanceErrors

\* the answer to an extrude_feature request, by its distance_mm
DistanceDecides ==
    IF DistanceInRange(req.distance)
    THEN resp.error \notin DistanceErrors
    ELSE ~resp.ok /\ resp.error \in ChecksBeforeBody /\ trace = <<>>

\* C17: extrude_feature accepts distance_mm exactly when
\* 0 < distance_mm <= MAX_EXTRUDE_MM (50.0): 50.0 passes, and every larger
\* value and every value <= 0 is rejected with ok=false before a body or a
\* face is resolved.
C17_DistanceBoundary ==
    (resp.sent /\ req.cmd = "extrude_feature") => DistanceDecides

\* the same for every distance_mm other than NaN
DistanceBoundaryWithoutNaN ==
    (resp.sent /\ req.cmd = "extrude_feature" /\ req.distance # NotANumber) => DistanceDecides

\* the limit itself is accepted and previewed
LimitAccepted ==
    /\ resp.sent
    /\ resp.ok
    /\ req.cmd = "extrude_feature"
    /\ req.distance = Number(ToMicro(50))

\* a millionth of a millimetre above the limit is rejected
AboveLimitRejected ==
    /\ resp.sent
    /\ req.cmd = "extrude_feature"
    /\ req.distance = Number(ToMicro(50) + 1)
    /\ resp.error = "distance_mm exceeds MAX_EXTRUDE_MM"

\* a request of one of the two commands that take through_all
TakesThroughAll == req.cmd \in {"hole_feature", "extrude_profile"}

\* rejected as invalid input, nothing having been asked of the host
RejectedUnchanged == ~resp.ok /\ resp.error \in ValidationErrors /\ IssuedCalls = {} /\ doc = doc0

\* C18: hole_feature and extrude_profile want exactly one of through_all=true
\* and a numeric depth: a request with both and a request with neither are
\* rejected as invalid input, without a mutation.
C18_ThroughAllXorDepth ==
    (resp.sent /\ TakesThroughAll /\ req.depth \in {"both", "neither"}) => RejectedUnchanged

\* a request with neither is rejected by the numeric check of the depth
NeitherIsRejected ==
    (resp.sent /\ TakesThroughAll /\ req.depth = "neither") =>
      (RejectedUnchanged /\ resp.error = DepthNotNumeric(req.cmd))

\* a request with both passes the depth block, which through_all=true skips
BothPassesDepthChecks ==
    (resp.sent /\ TakesThroughAll /\ req.depth = "both") => resp.error \notin DepthChecks(req.cmd)

\* a committed hole for a request with through_all=true and a depth_mm
BothCommitted ==
    /\ resp.sent
    /\ resp.ok
    /\ ~req.preview
    /\ req.cmd = "hole_feature"
    /\ req.depth = "both"

(***************************************************************************)
(* The guardrail table.                                                    *)
(***************************************************************************)
Limits(ms, faces, edges, bodies) == [ms |-> ms, faces |-> faces, edges |-> edges, bodies |-> bodies]

\* the commands of the documented table
TabledCommands == Commands \ {"revolve_feature"}

\* the documented table
StatedLimits(cmd) ==
    CASE cmd = "extrude_feature" -> Limits(1500, 150, 300, 1)
      [] cmd \in {"extrude_profile", "hole_feature", "fillet_feature"} -> Limits(5000, 300, 600, 1)
      [] cmd = "shell_feature" -> Limits(5000, 500, 1000, 1)
      [] cmd = "pattern_feature" -> Limits(5000, 500, 1000, 20)
      [] OTHER -> Limits(1500, 400, 800, 10)

\* the table with hole_feature's own row, and with a row for revolve_feature
AmendedLimits(cmd) ==
    CASE cmd = "hole_feature" -> Limits(5000, 200, 400, 1)
      [] cmd = "revolve_feature" -> Limits(1500, 400, 800, 5)
      [] OTHER -> StatedLimits(cmd)

\* the first breach under a table row, as the error that names it
FirstBreachedUnder(limits) ==
    IF frame.elapsed_ms > limits.ms THEN "Apply exceeded MAX_APPLY_MS"
    ELSE IF FaceDelta > limits.faces THEN "face_count_delta exceeded MAX_FACE_DELTA"
    ELSE IF EdgeDelta > limits.edges THEN "edge_count_delta exceeded MAX_EDGE_DELTA"
    ELSE IF BodyDelta > limits.bodies THEN "body_count_delta exceeded MAX_BODY_DELTA"
    ELSE ""

\* a hole whose face-count delta is above 200 and at most 300, every other
\* measure within the limits of either table
HoleBetweenTheTables ==
    /\ PastGuardrailCheck
    /\ req.cmd = "hole_feature"
    /\ FaceDelta > 200 /\ FaceDelta <= 300
    /\ EdgeDelta <= 400
    /\ BodyDelta <= 1
    /\ frame.elapsed_ms <= 5000

\* C19 (as stated): the limits applied are those of the documented table,
\* hole_feature having 5000 ms / +300 faces / +600 edges / +1 body, so that a
\* hole with a face-count delta between 201 and 300 and all else within
\* bounds is committed.
C19_AsStated ==
    /\ (PastGuardrailCheck /\ req.cmd \in TabledCommands) =>
         HeldGuardrailError = FirstBreachedUnder(StatedLimits(req.cmd))
    /\ HoleBetweenTheTables => pc = "commit"

\* C19 (amended): the limits applied are those of the documented table except
\* that hole_feature has 5000 ms / +200 faces / +400 edges / +1 body (and
\* revolve_feature 1500 ms / +400 / +800 / +5); a hole with a face-count
\* delta between 201 and 300 and all else within bounds is rolled back with
\* the face_count_delta error.
C19_GuardrailTable ==
    /\ PastGuardrailCheck =>
         HeldGuardrailError = FirstBreachedUnder(AmendedLimits(req.cmd))
    /\ HoleBetweenTheTables =>
         (pc = "rollback" /\ frame.error = "face_count_delta exceeded MAX_FACE_DELTA")

C19_Witness ==
    /\ HoleBetweenTheTables
    /\ FaceDelta = 201
    /\ pc = "rollback"

(***************************************************************************)
(* The dispatcher's contract.                                              *)
(***************************************************************************)

\* the response carries an "error" that is a string of at least one character
CarriesError(response) == response.error # None /\ Len(response.error[1]) > 0

\* every failure response of a mutating handler carries an error, as the
\* results that the dispatcher passes on do
HandlerFailuresCarryError == (resp.sent /\ ~resp.ok) => resp.error # ""

\* C20: _handle_request never raises: whatever the request value (a JSON
\* value that is no object, a missing or unknown cmd, a handler that
\* raises), the call returns a response, and every response with ok=false
\* that it hands on carries a non-empty error string.
C20_NeverRaises ==
    /\ rpcPc # "raised"
    /\ rpcPc = "returned" =>
         /\ rpcResponse.ok \in BOOLEAN
         /\ ~rpcResponse.ok => CarriesError(rpcResponse)

\* a registered command's handler raised, and the dispatcher returned
\* ok=false with the traceback
C20_Witness ==
    /\ rpcPc = "returned"
    /\ rpcRequest.cmd \in Commands
    /\ ~rpcResponse.ok
    /\ rpcResponse.error \in {Some(Traceback(text)) : text \in ExceptionTexts}

\* a request that is no object was answered with ok=false and an error
NonObjectAnswered ==
    /\ rpcPc = "returned"
    /\ rpcRequest.kind = "array"
    /\ ~rpcResponse.ok
    /\ CarriesError(rpcResponse)

\* a request without cmd, and one with an unknown cmd, was answered
MissingCmdAnswered ==
    /\ rpcPc = "returned"
    /\ rpcRequest.kind = "object"
    /\ rpcRequest.cmd = NoCmd
    /\ rpcResponse.error = Some("Unknown command: None")

UnknownCmdAnswered ==
    /\ rpcPc = "returned"
    /\ rpcRequest.cmd = UnknownCmd
    /\ rpcResponse.id = Some(2)
    /\ rpcResponse.error = Some(UnknownCommandError(UnknownCmd))

(***************************************************************************)
(* The server's contract.                                                  *)
(***************************************************************************)

\* the steps of _handle_request between its entry and its return
Executing == rpcPc \in {"cmd", "dispatch", "lookup", "design", "handle"}

\* the requests were taken for handling in the order the server accepted
\* them: none is taken before one that was put on the queue earlier
HandledInArrivalOrder ==
    \A i \in 1..Len(handled) :
        /\ \A j \in 1..(i - 1) : handled[j] < handled[i]
        /\ \A t \in 1..(handled[i] - 1) :
              conn[t].request # UndecodableRequest => \E j \in 1..(i - 1) : handled[j] = t

\* a request is handled inside notify, on the host's main thread, and it is
\* the request that notify took last
HandlerOnMainThread ==
    rpcPc # "idle" =>
        /\ mainThread.running
        /\ Len(handled) > 0
        /\ mainThread.ticket = handled[Len(handled)]

\* a request is taken for handling only when the one before it has been
\* answered: its response stored and its done event set
StartsAfterLastFinished ==
    handled' # handled =>
        /\ rpcPc = "idle"
        /\ Len(handled) > 0 => conn[handled[Len(handled)]].done

\* C21: handlers run only from the custom-event handler notify on the host's
\* main thread, never from the server thread; queued requests are handled
\* one at a time, in the order of their arrival, so the steps of two
\* commands never interleave.
C21_HandlersSerialized ==
    /\ [](HandledInArrivalOrder /\ HandlerOnMainThread)
    /\ [][StartsAfterLastFinished]_vars

\* the first request was handled and answered, the second is inside its
\* handler, and a third one waits in the queue
C21_Witness ==
    /\ handled = <<1, 2>>
    /\ conn[1].done
    /\ rpcPc = "handle"
    /\ queue = <<3>>

\* the requests that are queued or executing
Outstanding == Len(queue) + (IF Executing THEN 1 ELSE 0)

\* C22: at most one request is outstanding against the document: the queue
\* never holds more than one unprocessed request, and no request is queued
\* while an earlier one is still queued or executing.
C22_AtMostOneOutstanding == Len(queue) <= 1 /\ Outstanding <= 1

\* no wait of the server has timed out so far
NoTimeoutSoFar ==
    /\ srv.response # Some(TimeoutResponse)
    /\ \A t \in 1..Len(conn) : conn[t].sent # Some(TimeoutResponse)

\* as long as no wait has timed out, at most one request is outstanding
AtMostOneOutstandingBeforeTimeout == NoTimeoutSoFar => Outstanding <= 1

\* two requests are in the queue while an earlier one is inside its handler
ThreeOutstanding == Len(queue) = 2 /\ Executing

(***************************************************************************)
(* Verification and measurement.                                           *)
(***************************************************************************)

\* an extrude_feature apply was committed
CommittedExtrude ==
    resp.sent /\ resp.ok /\ ~req.preview /\ req.cmd = "extrude_feature" /\ resp.verify # None

\* a metric is null in the measurement before or in the one after
MissingInEither(metric) ==
    resp.measure_before[1][metric] = None \/ resp.measure_after[1][metric] = None

\* C23: in a committed extrude_feature response required_pass is false if
\* the bounding box is missing from measure_before or measure_after, or if
\* the operation is join, cut or intersect and the volume is missing from
\* either; for new_body a missing volume only adds the advisory warning
\* and leaves required_pass true.
C23_RequiredPass ==
    CommittedExtrude =>
      /\ MissingInEither("bbox_mm") => ~resp.verify[1].required_pass
      /\ (req.variant \in {"join", "cut", "intersect"} /\ MissingInEither("volume_mm3"))
            => ~resp.verify[1].required_pass
      /\ (req.variant = "new_body" /\ ~MissingInEither("bbox_mm")
            /\ MissingInEither("volume_mm3"))
            => /\ resp.verify[1].required_pass
               /\ "volume measurement missing (advisory)" \in resp.verify[1].warnings
               /\ "volume measurement missing" \notin resp.verify[1].warnings

\* a new_body extrude was committed with both bounding boxes and no volume
C23_Witness ==
    /\ CommittedExtrude
    /\ req.variant = "new_body"
    /\ ~MissingInEither("bbox_mm")
    /\ resp.measure_after[1].volume_mm3 = None
    /\ resp.verify[1].required_pass

\* a cut was committed without a volume, and required_pass is false
CutWithoutVolume ==
    /\ CommittedExtrude
    /\ req.variant = "cut"
    /\ ~MissingInEither("bbox_mm")
    /\ MissingInEither("volume_mm3")
    /\ ~resp.verify[1].required_pass

\* a measurement that was returned with its counts, whatever metrics it has
ReturnedWithCounts(measure) == measure # None /\ measure[1].returned /\ measure[1].counts

\* a measure command resolved a body
MeasuredBody == resp.sent /\ req.cmd \in MeasureCommands /\ resp.measured # 0

\* C24: measuring a body never aborts because one metric is unavailable:
\* the metric is null and the other metrics and the counts are returned, in
\* the mutator's _body_measurement as in get_body_info.
C24_MeasurementNeverAborts ==
    /\ CommittedExtrude =>
         ReturnedWithCounts(resp.measure_before) /\ ReturnedWithCounts(resp.measure_after)
    /\ (MeasuredBody /\ req.cmd = "get_body_info") =>
         resp.ok /\ ReturnedWithCounts(resp.measure_after)

\* the same for the mutator's _body_measurement alone
MutatorMeasurementNeverAborts ==
    CommittedExtrude =>
      ReturnedWithCounts(resp.measure_before) /\ ReturnedWithCounts(resp.measure_after)

\* get_body_info with a bounding box: a missing volume or area is null and
\* the response is ok
BodyInfoWithBboxNeverAborts ==
    (MeasuredBody /\ req.cmd = "get_body_info"
       /\ resp.error # "Failed to read body bounding box.") =>
      resp.ok /\ ReturnedWithCounts(resp.measure_after)

\* get_body_info answered ok with a null volume
BodyInfoWithNullVolume ==
    /\ MeasuredBody
    /\ req.cmd = "get_body_info"
    /\ resp.ok
    /\ resp.measure_after[1].volume_mm3 = None
    /\ resp.measure_after[1].area_mm2 # None

\* a committed extrude whose measure_before has neither metric
ExtrudeWithNullMetrics ==
    /\ CommittedExtrude
    /\ resp.measure_before[1].bbox_mm = None
    /\ resp.measure_before[1].volume_mm3 = None
    /\ resp.measure_before[1].counts

\* what the claim says of a command that targets a body, for the response
\* of a measure command
ResolvedAsDocumented ==
    LET visible == ListVisibleBodies(doc)
    IN  /\ req.body_name = "" =>
             /\ resp.measured # 0 => Cardinality(visible) = 1 /\ resp.measured \in visible
             /\ Cardinality(visible) # 1 => ~resp.ok
        /\ (req.body_name # "" /\ resp.measured # 0) =>
             resp.measured \in visible /\ BodyName(resp.measured) = req.body_name

\* C29: without a body_name a command resolves a body only if exactly one
\* visible solid body exists, and fails with ok=false on zero or several,
\* never picking one silently, in the measure commands as in the mutating
\* ones; with a body_name only a visible solid body of that name resolves.
C29_BodyResolution ==
    (resp.sent /\ req.cmd \in MeasureCommands) => ResolvedAsDocumented

\* the same for get_body_info and measure_face_span
BodyResolutionBesidesMeasureBbox ==
    (resp.sent /\ req.cmd \in {"get_body_info", "measure_face_span"}) => ResolvedAsDocumented

\* the same for the mutating commands: the body of the handler's frame
BodyResolutionOfMutators ==
    LET visible == ListVisibleBodies(doc0)
    IN  (pc = "apply" /\ frame.body # 0) =>
          /\ req.body_name = "" => visible = {frame.body}
          /\ req.body_name # "" => frame.body \in visible /\ BodyName(frame.body) = req.body_name

\* measure_bbox answered ok for one of several visible bodies
PickedOneOfSeveral ==
    /\ resp.sent
    /\ resp.ok
    /\ req.cmd = "measure_bbox"
    /\ req.body_name = ""
    /\ Cardinality(ListVisibleBodies(doc)) = 2

(***************************************************************************)
(* Unit round trip.                                                        *)
(***************************************************************************)

\* a length went to internal units and back, through the unit manager or
\* through the fallback of each direction
WentRoundTrip == conv.pc = "back" /\ conv.forward \in {"manager", "fallback"}

RoundTripExactForAll == WentRoundTrip => conv.out = conv.mm

\* the lengths n/10 mm whose round trip is exact
ExactTenths == (1..MaxTenths) \ {9, 17, 18, 34, 36, 39, 53, 57}

\* the round trip is exact for those lengths and for no other
RoundTripExactness ==
    (WentRoundTrip /\ conv.tenths \in 1..MaxTenths) =>
        (conv.out = conv.mm <=> conv.tenths \in ExactTenths)

\* without a unit manager _mm_to_internal hands the millimetres on as they
\* are, and the way back multiplies them by ten
WithoutManagerTenfold ==
    (conv.pc = "back" /\ conv.forward = "no_manager") =>
        (conv.internal = conv.mm /\ conv.out = Multiplied(conv.mm, 10) /\ conv.out # conv.mm)

(***************************************************************************)
(* The order of the steps of an apply.                                     *)
(***************************************************************************)

\* the steps of the protocol among the events of the trace, in the order
\* they were taken: the measurements, the verification and the construction
\* axis of PLAN are left out
ProtocolEvents ==
    {"snapshot", "create_sketch", "create_feature", "compute", "guardrail_check",
     "disambiguate", "delete_feature"}

RECURSIVE Only(_, _)
Only(events, kept) ==
    IF events = <<>> THEN <<>>
    ELSE IF Head(events) \in kept THEN <<Head(events)>> \o Only(Tail(events), kept)
    ELSE Only(Tail(events), kept)

Steps == Only(trace, ProtocolEvents)

\* the request asks for the recompute: three handlers read the compute flag
RecomputeRequested ==
    req.cmd \in {"extrude_feature", "extrude_profile", "fillet_feature"} => req.compute

\* the request is one whose apply must leave exactly one new body
DisambiguationApplies == req.cmd = "extrude_feature" /\ req.variant = "new_body"

\* the host operation: hole_feature draws a sketch first
HostOperation ==
    IF req.cmd = "hole_feature" THEN <<"create_sketch", "create_feature">>
    ELSE <<"create_feature">>

\* before-snapshot, host operation, recompute attempt when requested,
\* after-snapshot, guardrail check
UpToGuardrail ==
    <<"snapshot">> \o HostOperation
      \o (IF RecomputeRequested THEN <<"compute">> ELSE <<>>)
      \o <<"snapshot", "guardrail_check">>

\* the steps of a committed apply
CommittedRun ==
    UpToGuardrail \o (IF DisambiguationApplies THEN <<"disambiguate">> ELSE <<>>)

\* the steps of a rolled back apply: the rollback deletes the feature and
\* may recompute
RolledBackRuns ==
    {UpToGuardrail \o d \o <<"delete_feature">> \o c :
        d \in (IF DisambiguationApplies THEN {<<>>, <<"disambiguate">>} ELSE {<<>>}),
        c \in {<<>>, <<"compute">>}}

\* the steps of an apply whose host operation raised, and of the
\* extrude_feature apply whose recompute raised
ApplyFailedRuns ==
    {<<"snapshot">> \o SubSeq(HostOperation, 1, n) : n \in 1..Len(HostOperation)}
      \cup (IF req.cmd = "extrude_feature" /\ req.compute
            THEN {<<"snapshot", "create_feature", "compute", "delete_feature">>}
            ELSE {})

IsPrefixOf(s, t) == Len(s) <= Len(t) /\ SubSeq(t, 1, Len(s)) = s

\* a non-preview request that passed PLAN has been answered
AppliedAndAnswered == pc = "idle" /\ resp.sent /\ ~req.preview /\ resp.plan # None

\* a non-preview request that passed PLAN is being handled
ApplyUnderWay == pc \in {"compute", "check", "disambiguate", "rollback", "commit"}

\* the answered request was committed, or rolled back, after the steps in
\* their order
CommittedInOrder == resp.ok /\ Steps = CommittedRun

RolledBackInOrder ==
    ~resp.ok /\ ErrorKind(resp.error) # "ApplyFailed" /\ Steps \in RolledBackRuns

StepsSoFarInOrder ==
    \E run \in {CommittedRun} \cup RolledBackRuns \cup ApplyFailedRuns :
        /\ IsPrefixOf(Steps, run)
        /\ "snapshot" \in SeqRange(Steps)

CommittedAfterAllSteps == AppliedAndAnswered /\ CommittedInOrder /\ DisambiguationApplies

\* the host operation raised and the request ended without commit or rollback
EndedWithoutCommitOrRollback ==
    AppliedAndAnswered /\ ~CommittedInOrder /\ ~RolledBackInOrder /\ Steps \in ApplyFailedRuns

(***************************************************************************)
(* The winner's score.                                                     *)
(***************************************************************************)

\* the entity of the pool the resolver returned
Winners == {i \in 1..Len(pool) : pool[i].h = result.winner}

\* a coordinate or length of the host, in mm
InMm(v) == 10 * v

\* what the selector needs of an entity can be read: its centroid,
\* midpoint or point, and the quantity that is its score
Readable(e) ==
    /\ e.pos # None
    /\ Parsed.type \in {"largest_planar", "largest_area", "longest_edge"} => e.mag # None
    /\ Parsed.type = "normal_closest" => e.vec # None
    /\ Parsed.type \in {"max_bbox", "min_bbox"} => e.bbox # None
    /\ Parsed.type = "closest_to_point" => Parsed.point # None

\* the face is a plane whose geometry can be read
PlanarFace(e) == e.geom \notin {"curved", "raises"}

\* the entities of the pool that are candidates
InPool(e) ==
    /\ Readable(e)
    /\ (Parsed.kind = "face" /\ Parsed.type \in {"largest_planar", "normal_closest"}) =>
         PlanarFace(e)

\* the coordinate of a point along the selector's axis or direction
Along(point) ==
    CASE Parsed.axis \in {"x", "+X"} -> point[1]
      [] Parsed.axis = "-X" -> -point[1]
      [] Parsed.axis \in {"y", "+Y"} -> point[2]
      [] Parsed.axis = "-Y" -> -point[2]
      [] Parsed.axis \in {"z", "+Z"} -> point[3]
      [] OTHER -> -point[3]

\* the squared distance in mm from the entity's point to the request's point
DistanceSquared(e) ==
    (InMm(e.pos[1]) - Parsed.point[1]) * (InMm(e.pos[1]) - Parsed.point[1])
      + (InMm(e.pos[2]) - Parsed.point[2]) * (InMm(e.pos[2]) - Parsed.point[2])
      + (InMm(e.pos[3]) - Parsed.point[3]) * (InMm(e.pos[3]) - Parsed.point[3])

\* the score of a candidate, selector by selector
DocumentedScore(e) ==
    CASE Parsed.type \in {"largest_planar", "largest_area"} -> InMm(InMm(e.mag[1]))
      [] Parsed.type = "longest_edge" -> InMm(e.mag[1])
      [] Parsed.type = "normal_closest" -> Along(e.vec)
      [] Parsed.type = "max_bbox" -> InMm(Along(e.bbox[2]))
      [] Parsed.type = "min_bbox" -> -InMm(Along(e.bbox[1]))
      [] OTHER -> -DistanceSquared(e)

\* C27: the winner's score is the maximum over the pool, the score being
\* the area (largest_planar, largest_area), the dot product of the normal
\* or direction with the axis (normal_closest), the bounding box's max or
\* negated min coordinate along the axis (max_bbox, min_bbox), the length
\* (longest_edge) or the negative squared distance in mm to p
\* (closest_to_point); closest_to_point returns an entity at minimal
\* distance from p.
C27_WinnerHasMaximalScore ==
    result.status = "resolved" =>
      /\ Winners # {}
      /\ \A w \in Winners :
           /\ InPool(pool[w])
           /\ \A i \in 1..Len(pool) :
                InPool(pool[i]) =>
                  /\ DocumentedScore(pool[i]) <= DocumentedScore(pool[w])
                  /\ Parsed.type = "closest_to_point" =>
                       DistanceSquared(pool[w]) <= DistanceSquared(pool[i])

\* closest_to_point picked, of two edges or vertices, the one enumerated
\* second, which is nearer to p
C27_Witness ==
    /\ result.status = "resolved"
    /\ Parsed.type = "closest_to_point"
    /\ Len(pool) = 2
    /\ InPool(pool[1]) /\ InPool(pool[2])
    /\ DistanceSquared(pool[2]) < DistanceSquared(pool[1])
    /\ result.winner = pool[2].h

\* min_bbox picked the face whose box starts lower along the axis
LowerBoxWins ==
    /\ result.status = "resolved"
    /\ Parsed.type = "min_bbox"
    /\ Len(pool) = 2
    /\ InPool(pool[1]) /\ InPool(pool[2])
    /\ DocumentedScore(pool[2]) > DocumentedScore(pool[1])
    /\ result.winner = pool[2].h

(***************************************************************************)
(* Planarity.                                                              *)
(***************************************************************************)

\* the selector is one of the two that require a planar face
RequiresPlanar == Parsed.kind = "face" /\ Parsed.type \in {"largest_planar", "normal_closest"}

\* the handles of the candidates of the pool
CandidateHandles == {c.h : c \in SeqRange(Candidates(pool, Parsed))}

\* the faces of the pool that are candidates
CandidateFaces ==
    LET handles == CandidateHandles
    IN  {i \in 1..Len(pool) : pool[i].h \in handles}

\* C28: under largest_planar and under normal_closest for faces every
\* candidate of the pool, and so the winner, is a planar face; a face whose
\* geometry cannot be read counts as non-planar; a non-planar face is not
\* returned even when its area is the largest.
C28_OnlyPlanarFaces ==
    (RequiresPlanar /\ result.status # "pending") =>
      LET faces == CandidateFaces
      IN  /\ \A i \in faces : pool[i].geom = "plane"
          /\ \A w \in Winners : pool[w].geom = "plane"
          /\ result.n = Cardinality(faces)

\* largest_planar passed over a curved face of larger area and returned
\* the plane
C28_Witness ==
    /\ result.status = "resolved"
    /\ Parsed.type = "largest_planar"
    /\ Len(pool) = 2
    /\ pool[1].geom = "curved" /\ pool[1].pos # None /\ pool[1].mag = Some(2)
    /\ pool[2].geom = "plane" /\ pool[2].mag = Some(1)
    /\ result.winner = pool[2].h

\* a face whose geometry raises was passed over as well
UnreadablePassedOver ==
    /\ result.status = "resolved"
    /\ RequiresPlanar
    /\ Len(pool) = 2
    /\ pool[1].geom = "raises" /\ pool[1].pos # None
    /\ result.winner = pool[2].h
    /\ result.n = 1

\* largest_area, max_bbox and min_bbox admit faces that are not planar
NonPlanarAdmitted(type) ==
    /\ result.status = "resolved"
    /\ Parsed.kind = "face"
    /\ Parsed.type = type
    /\ \E w \in Winners : pool[w].geom # "plane"

LargestAreaAdmitsNonPlanar == NonPlanarAdmitted("largest_area")

MaxBboxAdmitsNonPlanar == NonPlanarAdmitted("max_bbox")

MinBboxAdmitsNonPlanar == NonPlanarAdmitted("min_bbox")

\* under those three a face is a candidate whatever its geometry
GeometryNotConsulted ==
    (Parsed.kind = "face" /\ Parsed.type \in {"largest_area", "max_bbox", "min_bbox"}) =>
        \A i \in 1..Len(pool) : Readable(pool[i]) => i \in CandidateFaces

(***************************************************************************)
(* The retry policy of the vision client.                                  *)
(***************************************************************************)

\* what the latest attempt was answered with
LastOutcome == vision.outcomes[Len(vision.outcomes)]

\* every attempt but the latest was answered with HTTP 429, while attempts
\* remained
EarlierAttemptsWere429 ==
    \A i \in 1..(vision.requests - 1) :
        /\ vision.outcomes[i].kind = "http_error"
        /\ vision.outcomes[i].code = 429
        /\ i < vision.max_attempts

\* how a call ended, by the answer to its latest attempt
EndsByLastOutcome ==
    (vision.outcomes # <<>> /\ vision.in_flight = 0) =>
        CASE LastOutcome.kind = "ok" -> vision.pc \in {"after_loop", "done"}
          [] LastOutcome.kind = "url_error" -> vision.pc = "failed"
          [] LastOutcome.code # 429 -> vision.pc = "failed"
          [] OTHER -> IF Len(vision.outcomes) = vision.max_attempts
                      THEN vision.pc = "failed"
                      ELSE vision.pc \in {"sleep", "loop"}

\* C30: vision_client performs at most max_attempts HTTP requests, one
\* after another; it retries only after an HTTP 429 and only while
\* attempts remain; any other status and any URL error fail at once, a 429
\* on the last attempt fails, and a success ends the loop with no further
\* request.
C30_RetryPolicy ==
    /\ vision.requests <= vision.max_attempts
    /\ vision.in_flight \in {0, 1}
    /\ vision.requests = Len(vision.outcomes) + vision.in_flight
    /\ EarlierAttemptsWere429
    /\ EndsByLastOutcome
    /\ vision.pc = "done" => (vision.outcomes # <<>> /\ LastOutcome.kind = "ok")

\* a call with max_attempts = 3 was answered 429, 429 and then 200
C30_Witness ==
    /\ vision.pc = "done"
    /\ vision.max_attempts = 3
    /\ vision.requests = 3
    /\ vision.outcomes[1].code = 429 /\ vision.outcomes[2].code = 429
    /\ vision.outcomes[3].kind = "ok"
    /\ Len(vision.slept) = 2

\* a 429 on the last attempt failed the call
FailedOnLast429 ==
    /\ vision.pc = "failed"
    /\ vision.max_attempts = 2
    /\ vision.requests = 2
    /\ LastOutcome.code = 429

\* a status other than 429 failed the call on its first attempt, with
\* attempts left
FailedAtOnce ==
    /\ vision.pc = "failed"
    /\ vision.max_attempts = 3
    /\ vision.requests = 1
    /\ LastOutcome.code = 503

\* the client raises "failed after retries" in no run
NeverFailsAfterRetries == vision.error # "Vision request failed after retries"

\* without a Retry-After header the client sleeps 1, 2, 4, ... seconds
BackoffDoubles ==
    \A i \in 1..Len(vision.slept) :
        vision.outcomes[i].retry_after = None => vision.slept[i] = 2^(i - 1)

(***************************************************************************)
(* The wait of ten seconds and what it leaves behind.                      *)
(***************************************************************************)

\* the server has answered connection t with the timeout error
TimedOut(t) == conn[t].sent = Some(TimeoutResponse)

\* request t is in the request queue
Queued(t) == \E i \in 1..Len(queue) : queue[i] = t

\* notify takes request t from the queue and enters _handle_request with it
Taken(t) == handled' = Append(handled, t)

\* C31: a request the server has answered with "Timeout waiting for Fusion
\* API" is no longer in the request queue, and no later event notification
\* runs it.
C31_TimedOutNeverExecuted ==
    /\ [](\A t \in 1..Len(conn) : TimedOut(t) => ~Queued(t))
    /\ [][\A t \in 1..Len(conn) : TimedOut(t) => ~Taken(t)]_vars

\* a request that was answered with the timeout error is inside its handler,
\* which it entered after the answer was sent
RunsAfterTimeout ==
    /\ rpcPc = "handle"
    /\ TimedOut(mainThread.ticket)
    /\ srv.pc = "wait"
    /\ srv.ticket = mainThread.ticket + 1

\* a request whose wait expired stays in the queue until notify takes it
LeavesQueueOnlyWhenTaken ==
    [][\A t \in 1..Len(conn) : Queued(t) /\ ~Queued(t)' => Taken(t)]_vars

(***************************************************************************)
(* Whose response a connection gets.                                       *)
(***************************************************************************)

\* response is what _handle_request returns for request: it carries the
\* request's id when there is one, and the payload of the request's command
IsAnswerTo(response, request) ==
    /\ response.id = IF request.kind = "object" /\ request.has_id
                     THEN Some(request.id) ELSE None
    /\ CASE request.kind # "object" ->
              ~response.ok /\ response.error # None /\ response.payload = "none"
         [] request.cmd = "help" -> response.ok /\ response.payload = "commands"
         [] OTHER -> response.payload \in {"result", "none"}
                     /\ (response.ok => response.payload = "result")

\* the answers the server loop makes up itself
ServerErrorResponses == {TimeoutResponse, DecodeErrorResponse}

\* the response sent on a connection answers the request of that connection,
\* unless it is a timeout or error response
SentIsOwnResponse ==
    \A t \in 1..Len(conn) :
        conn[t].sent # None =>
            \/ conn[t].sent[1] \in ServerErrorResponses
            \/ conn[t].sent = conn[t].held /\ IsAnswerTo(conn[t].sent[1], conn[t].request)

\* a done event that is set belongs to a request whose response is in its
\* own holder
DoneAfterStored ==
    \A t \in 1..Len(conn) :
        conn[t].done => conn[t].held # None /\ IsAnswerTo(conn[t].held[1], conn[t].request)

\* C32: the response sent on a connection is the response _handle_request
\* computed for the request of that connection, or a timeout or error
\* response, never the response to another request; a done event is set
\* only after the response was stored in the request's own holder.
C32_OwnResponseOrError == SentIsOwnResponse /\ DoneAfterStored

\* the first request timed out and was handled later; the second connection,
\* with another request, was answered with its own response while the holder
\* of the first kept the response to the first
C32_Witness ==
    /\ Len(conn) >= 2
    /\ conn[1].sent = Some(TimeoutResponse)
    /\ conn[1].held # None
    /\ conn[2].sent # None
    /\ conn[2].sent = conn[2].held
    /\ conn[2].held # conn[1].held
    /\ conn[2].sent[1].ok
    /\ conn[2].request # conn[1].request

\* the "No response" default is never sent
DefaultNeverSent == \A t \in 1..Len(conn) : conn[t].sent # Some(NoResponseHeld)

(***************************************************************************)
(* Every accepted request is answered.                                     *)
(***************************************************************************)

\* the server thread is inside the body of its loop, with a connection whose
\* response is still to be sent
ServerBusy == srv.pc # "accept"

\* a response that was sent on a connection is the only one sent on it
SentOnce ==
    \A t \in 1..Len(conn) : conn[t].sent # None => conn'[t].sent = conn[t].sent

\* the server thread is at accept exactly when every connection so far has
\* its response
AcceptsWhenAllAnswered ==
    srv.pc = "accept" <=> \A t \in 1..Len(conn) : conn[t].sent # None

OutcomesOf(response) ==
    {o \in {"validation_error", "preview", "apply_failed", "rollback", "commit"} :
        CASE o = "validation_error" ->
               ~response.ok /\ response.data = {} /\ response.plan = None
                 /\ response.error # ""
          [] o = "preview" ->
               response.ok /\ "preview" \in response.data /\ "apply" \notin response.data
          [] o = "apply_failed" ->
               ~response.ok /\ response.data = {"preview"} /\ response.plan # None
                 /\ ErrorKind(response.error) = "ApplyFailed"
          [] o = "rollback" ->
               ~response.ok /\ response.data = {"preview"} /\ response.plan # None
                 /\ ErrorKind(response.error) \in {"GuardrailViolation", "ResultAmbiguous"}
          [] OTHER -> response.ok /\ {"preview", "apply"} \subseteq response.data}

\* the handler has answered a request
RequestEnded == pc = "idle" /\ resp.sent

\* the document holds a feature it did not hold when the request came in
FeaturePresent == Len(doc.features) > Len(doc0.features)

\* the handler called deleteMe on the feature it created
DeleteIssued == IssuedInOrder("create_feature", "delete_feature")

\* a request that was previewed or rejected never got to the host operation
EndedBeforeApply == OutcomesOf(resp) \subseteq {"validation_error", "preview"}

\* C34: every mutating request ends in exactly one of validation error,
\* preview, apply failed, rollback and commit; ok is true exactly for
\* preview and commit; the feature the request created is in the document
\* afterwards if and only if the outcome is commit, unless the handler
\* called deleteMe on it and the host did not delete it.
C34_FiveOutcomes ==
    RequestEnded =>
        /\ Cardinality(OutcomesOf(resp)) = 1
        /\ resp.ok <=> OutcomesOf(resp) \subseteq {"preview", "commit"}
        /\ "preview" \in OutcomesOf(resp) <=> (resp.ok /\ req.preview)
        /\ EndedBeforeApply => ~FeaturePresent /\ "create_feature" \notin TraceSet
        /\ "commit" \in OutcomesOf(resp) => FeaturePresent /\ ~DeleteIssued
        /\ (FeaturePresent /\ "commit" \notin OutcomesOf(resp)) => DeleteIssued

\* a request whose feature was created ended in a rollback, and the feature
\* is gone
C34_Witness ==
    /\ RequestEnded
    /\ OutcomesOf(resp) = {"rollback"}
    /\ DeleteIssued
    /\ ~FeaturePresent

\* the other four outcomes
EndedInValidationError == RequestEnded /\ OutcomesOf(resp) = {"validation_error"}

EndedInPreview == RequestEnded /\ OutcomesOf(resp) = {"preview"}

EndedInApplyFailed == RequestEnded /\ OutcomesOf(resp) = {"apply_failed"} /\ DeleteIssued

EndedInCommit == RequestEnded /\ OutcomesOf(resp) = {"commit"}

\* a delete that the host refused leaves the feature after a rollback
RollbackLeftFeature == RequestEnded /\ OutcomesOf(resp) = {"rollback"} /\ FeaturePresent

(***************************************************************************)
(* What an undone apply leaves behind.                                     *)
(***************************************************************************)

\* the apply was undone: it failed or was rolled back
EndedUndone == RequestEnded /\ OutcomesOf(resp) \subseteq {"apply_failed", "rollback"}

\* the document holds no sketch and no construction axis beyond those it
\* held when the request came in
NoAuxiliaryLeft == doc.sketches = doc0.sketches /\ doc.axes = doc0.axes

\* C35: after an apply that failed or was rolled back, no auxiliary entity
\* that the request created is left in the document: neither the sketch of
\* hole_feature nor the construction axis of revolve_feature's axis_line_mm.
C35_NoAuxiliaryLeft == EndedUndone => NoAuxiliaryLeft

\* a rolled back hole_feature whose feature was deleted left its sketch
HoleSketchLeft ==
    /\ EndedUndone
    /\ req.cmd = "hole_feature"
    /\ OutcomesOf(resp) = {"rollback"}
    /\ ~FeaturePresent
    /\ doc.sketches = doc0.sketches + 1

\* a revolve_feature whose host operation raised left its construction axis
RevolveAxisLeft ==
    /\ EndedUndone
    /\ req.cmd = "revolve_feature"
    /\ OutcomesOf(resp) = {"apply_failed"}
    /\ doc.axes = doc0.axes + 1

\* the other six commands, and revolve_feature with an edge for its axis,
\* create nothing beside the feature
NoAuxiliaryElsewhere ==
    (EndedUndone /\ req.cmd # "hole_feature" /\ req.by # "axis_line_mm") => NoAuxiliaryLeft

(***************************************************************************)
(* The guardrail's comparisons.                                            *)
(***************************************************************************)

\* no measured value is above its limit: each is below it or equal to it
AtLimitOrBelow ==
    /\ frame.elapsed_ms <= MaxApplyMs(req.cmd)
    /\ FaceDelta <= MaxFaceDelta(req.cmd)
    /\ EdgeDelta <= MaxEdgeDelta(req.cmd)
    /\ BodyDelta <= MaxBodyDelta(req.cmd)

\* C36: a guardrail is breached only when a measured value is strictly
\* greater than its limit: with every value at its limit or below it,
\* negative deltas included, the handler holds no guardrail error and rolls
\* back only when the new-body disambiguation fails.
C36_BreachedOnlyAboveLimit ==
    PastGuardrailCheck =>
        /\ AtLimitOrBelow <=> frame.error \notin GuardrailErrors
        /\ (AtLimitOrBelow /\ pc = "rollback") => frame.error \in AmbiguityErrors

\* every measured value is exactly at its limit, and the apply is committed
C36_Witness ==
    /\ pc = "commit"
    /\ frame.elapsed_ms = MaxApplyMs(req.cmd)
    /\ FaceDelta = MaxFaceDelta(req.cmd)
    /\ EdgeDelta = MaxEdgeDelta(req.cmd)
    /\ BodyDelta = MaxBodyDelta(req.cmd)

\* the apply removed two bodies with their faces and edges, more bodies than
\* MAX_BODY_DELTA, and is committed
RemovalCommitted ==
    /\ pc = "commit"
    /\ FaceDelta < 0
    /\ EdgeDelta < 0
    /\ BodyDelta < 0 - MaxBodyDelta(req.cmd)

(***************************************************************************)
(* Requests that never reach a handler.                                    *)
(***************************************************************************)

\* the commands the dispatcher answers itself
BuiltInCommands == {"help", "reload_commands"}

\* the names that the command modules register
ModuleCommands == Commands \cup {"status", "list_bodies", "measure_bbox", "delete_feature"}

\* the dispatcher has returned the unknown-command answer for the request
UnknownCommandAnswer ==
    /\ ~rpcResponse.ok
    /\ rpcResponse.error = Some("Unknown command: " \o CmdText(rpcRequest.cmd))
    /\ rpcResponse.payload = "none"

\* the dispatcher returns the no-design answer
NoDesignAnswer ==
    /\ rpcPc' = "returned"
    /\ rpcResponse'.error = Some("No active Fusion design.")

\* a handler is entered only for a command the modules registered, and only
\* from the design check
HandlerOnlyForRegistered ==
    (rpcPc' = "handle" /\ rpcPc # "handle") =>
        rpcRequest.cmd \in ModuleCommands /\ rpcPc = "design"

\* the no-design answer is ok=false, comes from the design check itself,
\* not from a handler, and leaves the document as it is
NoDesignSkipsHandler ==
    (NoDesignAnswer /\ rpcPc # "returned") =>
        /\ rpcPc = "design"
        /\ rpcRequest.cmd \in ModuleCommands
        /\ ~rpcResponse'.ok
        /\ doc' = doc

\* the document changes only inside a handler, so never for a request that
\* no handler is entered for
DocumentTouchedOnlyByHandler ==
    doc' # doc => rpcPc = "handle" /\ rpcRequest.cmd \in ModuleCommands

\* C38, as stated: every request (a JSON object) whose cmd is not in the
\* command registry is answered with ok=false and the "Unknown command"
\* error; no handler is invoked for it, none is invoked for a registered
\* command when there is no active design, and the document is not touched.
C38_UnknownOrNoDesign ==
    /\ []((rpcPc = "returned" /\ rpcRequest.kind = "object"
            /\ rpcRequest.cmd \notin RegisteredCommands) => UnknownCommandAnswer)
    /\ [][HandlerOnlyForRegistered /\ NoDesignSkipsHandler /\ DocumentTouchedOnlyByHandler]_vars

\* C38, amended: the same for every cmd that is a string, or absent, and
\* neither a built-in command nor in the registry; the built-in commands
\* help and reload_commands are answered with ok=true by the dispatcher
\* itself, and a cmd that is a list gets ok=false with a traceback.
UnknownOrNoDesignExceptBuiltIns ==
    /\ []((rpcPc = "returned" /\ rpcRequest.kind = "object"
            /\ rpcRequest.cmd \notin ModuleCommands \cup BuiltInCommands \cup {UnhashableCmd})
           => UnknownCommandAnswer)
    /\ []((rpcPc = "returned" /\ rpcRequest.cmd \in BuiltInCommands)
           => rpcResponse.ok /\ rpcResponse.payload = "commands")
    /\ []((rpcPc = "returned" /\ rpcRequest.cmd = UnhashableCmd)
           => ~rpcResponse.ok /\ CarriesError(rpcResponse) /\ rpcResponse.payload = "none")
    /\ [][HandlerOnlyForRegistered /\ NoDesignSkipsHandler /\ DocumentTouchedOnlyByHandler]_vars

\* an unknown command was answered after a handler of an earlier request
\* had changed the document, which is as that handler left it
C38_Witness ==
    /\ rpcPc = "returned"
    /\ rpcRequest.cmd = UnknownCmd
    /\ UnknownCommandAnswer
    /\ Len(doc.features) = 1

\* a registered command was answered with the no-design error
NoDesignAnswered ==
    /\ rpcPc = "returned"
    /\ rpcRequest.cmd \in Commands
    /\ ~rpcResponse.ok
    /\ rpcResponse.error = Some("No active Fusion design.")
    /\ doc.features = <<>>

\* help is not in the registry and is answered with ok=true
HelpAnswered == rpcPc = "returned" /\ rpcRequest.cmd = "help" /\ rpcResponse.ok

(***************************************************************************)
(* The edit step of the planner loop.                                      *)
(***************************************************************************)

\* the iteration's action is the edit action that the iteration before it
\* left as pending
PendingEditTaken == agent.pc = "act" /\ agent.action.intent = "edit" /\ agent.action.from_pending

\* the edit action went to its tool
EditDispatched == "edit" \in agent.dispatched

\* the edit action that was pending is dispatched in the iteration that
\* takes it, and is not made pending again
DispatchedWhenTaken == PendingEditTaken => (EditDispatched' /\ ~agent'.pending)

\* C37: once the planner emits the edit action, one pre-edit snapshot is
\* saved, the action is dispatched to its tool on the following iteration
\* and is not queued as pending again, and only after the dispatch does the
\* planner go from VERIFY to DONE.
C37_EditDispatchedNext ==
    /\ [][DispatchedWhenTaken]_vars
    /\ [](agent.snapshots <= 1)
    /\ [](agent.state = "DONE" => EditDispatched)

\* the edit action was queued again: two pre-edit snapshots were saved, the
\* action is pending, and no edit was dispatched
EditRequeued ==
    /\ agent.pc = "iterate"
    /\ agent.snapshots = 2
    /\ agent.pending
    /\ ~EditDispatched

\* a run that emitted the edit action went on queueing it until max_steps
\* was used up
RequeuedUntilExhausted ==
    /\ agent.pc = "ended"
    /\ agent.max_steps = MaxLoopSteps
    /\ agent.state = "VERIFY"
    /\ agent.snapshots = MaxLoopSteps - 3
    /\ agent.pending

\* the stuck planner went into RECOVER with the edit action still pending
RecoverWithEditPending == agent.state = "RECOVER" /\ agent.pending /\ agent.pc = "act"

\* no run dispatches the edit action, and no run gets to verify or to DONE
EditNeverDispatched ==
    /\ ~EditDispatched
    /\ "verify" \notin agent.dispatched
    /\ agent.state # "DONE"

\* every iteration after the one that emitted the edit action saves another
\* snapshot, unless the planner is in RECOVER
SnapshotEveryIteration ==
    [][(agent.pc = "act" /\ agent.snapshots >= 1 /\ agent.state # "RECOVER")
         => agent'.snapshots = agent.snapshots + 1]_vars

====
